---- MODULE Spec2Model ----
(***************************************************************************)
(* Cache-backed AI content processing: AIService.processContent (the       *)
(* cache-aside protocol), AIService.batchProcess (windows of batchSize      *)
(* requests joined by Promise.all, cooldown between windows), the          *)
(* CacheService wrappers over the redis client, and the AIController       *)
(* entry points.  One action is one run-to-completion section of the       *)
(* JavaScript event loop: from the arrival of an I/O reply (or of an HTTP  *)
(* request, or of a timer) to the next await on I/O.                       *)
(***************************************************************************)
EXTENDS Integers, Sequences, FiniteSets, TLC

\* ------------------------------------------------------------------ bounds
MaxCalls == 2       \* concurrent single-request HTTP calls in Spec
MaxNow == 1         \* the clock (Date.now) stops advancing here

\* ------------------------------------------------------- program constants
cacheTimeout == 3600
defaultTTL == 3600
batchSize == 5
cooldownMs == 1000
BAD_REQUEST == 400
OK == 200
INTERNAL_SERVER_ERROR == 500

\* --------------------------------------------------------------- JS values
\* A JS object is a record; a property the object lacks is a field the record
\* lacks.  The text the model returns is a sequence of one-character strings
\* (formatResponse looks at its characters); the other strings are strings.
Has(o, f) == f \in DOMAIN o

\* !x for a property that is absent, or an empty string
Falsy(o, f) == ~Has(o, f) \/ o[f] = ""

SupportedTypes ==
    {"summarize", "analyze-sentiment", "extract-keywords", "generate-content", "translate"}

\* content.length
StrLen(s) == Len(s)

\* a / b on JS numbers: the quotient as a fraction, Infinity or NaN on b = 0
Divide(a, b) ==
    IF b = 0 THEN (IF a = 0 THEN <<"NaN">> ELSE <<"Infinity">>)
    ELSE <<"num", a, b>>

Whitespace == {" ", "\n", "\t"}

Digits == {"0", "1", "2", "3", "4", "5", "6", "7", "8", "9"}

DigitVal(ch) ==
    CASE ch = "0" -> 0 [] ch = "1" -> 1 [] ch = "2" -> 2 [] ch = "3" -> 3
      [] ch = "4" -> 4 [] ch = "5" -> 5 [] ch = "6" -> 6 [] ch = "7" -> 7
      [] ch = "8" -> 8 [] OTHER -> 9

\* --------------------------------------------------- src/utils/ai.utils.js
\* String.prototype.trim
RECURSIVE TrimLeft(_)
TrimLeft(s) ==
    IF s # <<>> /\ Head(s) \in Whitespace THEN TrimLeft(Tail(s)) ELSE s

RECURSIVE TrimRight(_)
TrimRight(s) ==
    IF s # <<>> /\ s[Len(s)] \in Whitespace
    THEN TrimRight(SubSeq(s, 1, Len(s) - 1)) ELSE s

Trim(s) == TrimRight(TrimLeft(s))

\* the characters of "```json\n" and of "```"; "bt" stands for the backtick
FenceOpen == <<"bt", "bt", "bt", "j", "s", "o", "n", "\n">>
FenceClose == <<"bt", "bt", "bt">>

StartsWith(s, p) == Len(s) >= Len(p) /\ SubSeq(s, 1, Len(p)) = p
EndsWith(s, p) == Len(s) >= Len(p) /\ SubSeq(s, Len(s) - Len(p) + 1, Len(s)) = p

\* .replace(/^```json\n/, '')
StripOpen(s) ==
    IF StartsWith(s, FenceOpen) THEN SubSeq(s, Len(FenceOpen) + 1, Len(s)) ELSE s

\* mutant: the closing fence is left in place
StripClose_Never(s) == s

\* .replace(/```$/, '')
StripClose(s) ==
    IF EndsWith(s, FenceClose) THEN SubSeq(s, 1, Len(s) - Len(FenceClose)) ELSE s

\* JSON.parse on the JSON texts of the model: the unsigned integers without
\* a leading zero, surrounded by optional whitespace.  Every other text is a
\* SyntaxError.
IsJSONText(s) ==
    LET t == Trim(s) IN
    /\ t # <<>>
    /\ \A i \in 1..Len(t) : t[i] \in Digits
    /\ (Len(t) > 1 => t[1] # "0")

RECURSIVE NumVal(_)
NumVal(t) ==
    IF t = <<>> THEN 0
    ELSE 10 * NumVal(SubSeq(t, 1, Len(t) - 1)) + DigitVal(t[Len(t)])

JSONparseText(s) == [number |-> NumVal(Trim(s))]

\* mutant: the catch block hands the text on
OnParseError_Raw(cleaned) == [raw |-> cleaned]

\* catch (error) { ...; parsedResult = { error: "Invalid result format" }; }
OnParseError(cleaned) == [error |-> "Invalid result format"]

formatResponse(rawResult) ==
    LET cleaned == Trim(StripClose(StripOpen(rawResult))) IN
    IF IsJSONText(cleaned) THEN JSONparseText(cleaned)
    ELSE OnParseError(cleaned)

\* ------------------------------------------- the transforms of ai.service.js
\* generatedContent.split(/\s+/).length: one more than the number of maximal
\* whitespace runs
WordCount(s) ==
    1 + Cardinality({i \in 1..Len(s) :
                        s[i] \in Whitespace /\ (i = 1 \/ s[i - 1] \notin Whitespace)})

\* the options that hold a number
NumberOptions == {"maxLength", "temperature", "maxTokens"}

\* !options.f: the option is absent, or it is 0, false or the empty string
OptionFalsy(options, f) ==
    \/ ~Has(options, f)
    \/ options[f] = (IF f \in NumberOptions THEN 0
                     ELSE IF f = "preserveFormatting" THEN FALSE ELSE "")

\* options?.f || dflt
OptionOr(request, f, dflt) ==
    IF Has(request, "options") /\ ~OptionFalsy(request.options, f)
    THEN request.options[f] ELSE dflt

\* What the transform of a request puts into the prompt and the generation
\* parameters it hands to the model capability.  Temperatures are in tenths;
\* preserveFormatting: the prompt carries "Preserve the original formatting
\* and structure."
PromptOf(request) ==
    CASE request.type = "summarize" ->
            [style |-> OptionOr(request, "style", "concise"),
             maxLength |-> OptionOr(request, "maxLength", 150)]
      [] request.type = "generate-content" ->
            [style |-> OptionOr(request, "style", "professional"),
             temperature |-> OptionOr(request, "temperature", 7),
             maxOutputTokens |-> OptionOr(request, "maxTokens", 1024)]
      [] request.type = "translate" ->
            [targetLanguage |-> OptionOr(request, "targetLanguage", "Spanish"),
             preserveFormatting |-> OptionOr(request, "preserveFormatting", TRUE)]
      [] OTHER -> [x \in {} |-> x]

summarizeText(content, text, time) ==
    [type |-> "summarize",
     result |-> [summary |-> text,
                 originalLength |-> StrLen(content),
                 summaryLength |-> StrLen(text),
                 compressionRatio |-> Divide(StrLen(content), StrLen(text))],
     processingTime |-> time]

analyzeSentiment(content, text, time) ==
    [type |-> "analyze-sentiment",
     result |-> formatResponse(text),
     processingTime |-> time]

\* mutant: the envelope is tagged with another name
extractKeywords_Keywords(content, text, time) ==
    [type |-> "keywords",
     result |-> [response |-> formatResponse(text)],
     processingTime |-> time]

\* keywords, parsed once more from the value formatResponse returned, is not
\* part of what is returned
extractKeywords(content, text, time) ==
    [type |-> "extract-keywords",
     result |-> [response |-> formatResponse(text)],
     processingTime |-> time]

generateContent(prompt, text, time) ==
    [type |-> "generate-content",
     result |-> [content |-> text, wordCount |-> WordCount(text)],
     processingTime |-> time]

translateText(request, text, time) ==
    [type |-> "translate",
     result |-> [originalText |-> request.content,
                 translatedText |-> text,
                 sourceLanguage |-> "auto-detected",
                 targetLanguage |-> OptionOr(request, "targetLanguage", "Spanish")],
     processingTime |-> time]

\* the switch of processContent, applied to the text the model returned
Transform(request, text, time) ==
    CASE request.type = "summarize" -> summarizeText(request.content, text, time)
      [] request.type = "analyze-sentiment" -> analyzeSentiment(request.content, text, time)
      [] request.type = "extract-keywords" -> extractKeywords(request.content, text, time)
      [] request.type = "generate-content" -> generateContent(request.content, text, time)
      [] OTHER -> translateText(request, text, time)

\* ------------------------------------------------ JSON.stringify / JSON.parse
\* JSON has no Infinity and no NaN: JSON.stringify writes them as null.
JSONnumber(x) == IF x = <<"Infinity">> \/ x = <<"NaN">> THEN <<"null">> ELSE x

\* JSON.stringify(result): the text of the envelope.  Only summarize carries a
\* number that may be non-finite.
JSONstringify(result) ==
    [json |->
        IF result.type = "summarize"
        THEN [result EXCEPT !.result.compressionRatio = JSONnumber(@)]
        ELSE result]

\* a text that is not JSON: JSON.parse throws a SyntaxError on it
NotJSON == [raw |-> "{"]

\* JSON.parse accepts the text
Parses(text) == Has(text, "json")

\* JSON.parse of a text JSON.stringify wrote
JSONparse(text) == text.json

\* ------------------------------------------------------------------- state
VARIABLES
    calls,          \* processContent invocations: request, position, outcome
    cache,          \* the redis database: key -> [value, ttl]
    isConnected,    \* CacheService.isConnected
    initialized,    \* AIService.initialized
    hasModel,       \* AIService.model is set
    ctorInit,       \* the init() the AIService constructor started
    now,            \* Date.now()
    resp,           \* the HTTP response of each single-request call
    batch,          \* the batchProcess call and the HTTP request around it
    env,            \* the environment: what the model may answer, whether
                    \* commands to the backend may fail
    evicted,        \* history: an entry has expired or was removed
    client,         \* CacheService.client, and the connect() init() awaits
    ops,            \* the calls of the operations of CacheService
    fps             \* the keys generateCacheKey computed, by request

vars == <<calls, cache, isConnected, initialized, hasModel, ctorInit, now, resp,
          batch, env, evicted, client, ops, fps>>

\* -------------------------------------------------- generateCacheKey (md5)
\* Texts are sequences of pieces.  The characters of the short strings whose
\* characters matter; any other string is one piece.
Chars(s) ==
    CASE s = "t:f" -> <<"t", ":", "f">>
      [] OTHER -> <<s>>

\* An object as JSON.stringify sees it: its own properties in the order of
\* their insertion, each a name and a value, the value a string or an object.
Str(s) == <<"str", s>>
Obj(props) == <<"obj", props>>
Lit(v) == <<"lit", v>>

\* the order in which the controller inserts the properties of a request
PropertyOrder == <<"type", "content", "options">>

OptionNames ==
    <<"maxLength", "style", "temperature", "maxTokens", "targetLanguage",
      "preserveFormatting">>

\* the properties of the options object, inserted in the given order
OptionEntries(options, optionOrder) ==
    LET names == SelectSeq(optionOrder, LAMBDA f : Has(options, f))
    IN  [k \in 1..Len(names) |-> <<names[k], Lit(options[names[k]])>>]

\* the properties of request, inserted in the given order; its options are the
\* object the body carried, with the properties in the order of the body
EntriesIn(request, order, optionOrder) ==
    LET names == SelectSeq(order, LAMBDA f : Has(request, f))
    IN  [k \in 1..Len(names) |->
            <<names[k], IF names[k] = "options"
                        THEN Obj(OptionEntries(request.options, optionOrder))
                        ELSE Str(request[names[k]])>>]

\* a request built by the controller from a body that lists its options in
\* the order of OptionNames
Entries(request) == EntriesIn(request, PropertyOrder, OptionNames)

\* JSON.stringify(request): every own property, in the order of insertion,
\* with the text of its value; nothing is sorted and nothing is left out
RECURSIVE JSONstringifyObject(_)
JSONstringifyObject(props) ==
    [k \in 1..Len(props) |->
        <<props[k][1], ":",
          IF props[k][2][1] = "obj"
          THEN Obj(JSONstringifyObject(props[k][2][2]))
          ELSE props[k][2]>>]

\* the hexadecimal digests of the model, all of one length
DigestLen == 1
Digests == {[i \in 1..DigestLen |-> h] : h \in {"0", "f"}}

\* createHash("md5").update(text).digest("hex").  Where the environment fixes
\* the function (env.md5, any function to the digests, so texts may collide)
\* it is that function; elsewhere the digest stands for the text itself: md5
\* taken as free of collisions.
md5(text) == IF Has(env, "md5") THEN env.md5[text] ELSE <<<<"md5", text>>>>

\* `${request.type}`
TypeText(props) ==
    LET at == {k \in 1..Len(props) : props[k][1] = "type"}
    IN  IF at = {} THEN <<"undefined">>
        ELSE Chars(props[CHOOSE k \in at : TRUE][2][2])

\* mutant: the key is the hash alone
KeyText_HashOnly(type, hash) == <<"ai", ":">> \o hash

\* `ai:${request.type}:${hash}`
KeyText(type, hash) == <<"ai", ":">> \o type \o <<":">> \o hash

\* mutant: the hash is salted with the number of keys computed so far
generateCacheKey_Salted(request) ==
    KeyText(TypeText(request), md5(JSONstringifyObject(request)))
        \o <<IF Len(fps) = 0 THEN "0" ELSE "f">>

\* generateCacheKey of a request given by its properties
generateCacheKey(request) ==
    KeyText(TypeText(request), md5(JSONstringifyObject(request)))

EmptyObject == [x \in {} |-> x]

NoOut == [status |-> "none", value |-> <<>>, error |-> ""]

\* A processContent invocation.  pc is the await it is suspended at; lookup
\* and stored tell how cacheService.get and cacheService.set ended ("down":
\* the store was not connected, or the command failed); invoked and setCalls
\* count its calls of the model capability and of cacheService.set; after is
\* the set of invocations that had returned when it started; asked is what
\* went into its prompt and heard is the text the model capability answered.
IdleCall ==
    [req |-> EmptyObject, key |-> <<>>, pc |-> "idle", lookup |-> "none",
     stored |-> "none", invoked |-> 0, setCalls |-> 0, after |-> {},
     asked |-> <<>>, heard |-> <<>>, result |-> <<>>, out |-> NoOut]

\* The HTTP exchange of a single-request call: the body it received, the
\* status and the body it answered.
NoResp == [status |-> 0, body |-> <<>>, received |-> <<>>]

\* The batchProcess call: the loop index i, the Promise.all of the window
\* (values, remaining), results, the error it threw, the "Batch processing
\* failed" log entries, the delays it made, and the HTTP response.  reordered
\* is history: a request of a window completed before one placed ahead of it.
NoBatch ==
    [pc |-> "none", requests |-> <<>>, i |-> 0, values |-> <<>>, remaining |-> 0,
     results |-> <<>>, thrown |-> <<>>, log |-> <<>>, delays |-> <<>>,
     status |-> 0, body |-> <<>>, reordered |-> FALSE]

UnsupportedMsg == "Unsupported AI processing type"
ModelError == "model capability failed"
TypeErrorMsg == "TypeError"
CacheErrorMsg == "redis command failed"
InitFailedMsg == "Failed to initialize Google GenAI client"
SyntaxErrorMsg == "SyntaxError"

\* what the model capability may answer: a text, or a failure
ModelTexts == {<<>>, <<"7">>}
ModelOutcomes == {[ok |-> TRUE, text |-> t] : t \in env.texts}
                    \cup {[ok |-> FALSE, text |-> <<>>]}

\* how a command sent to the backend may end
GetOutcomes == IF env.faults THEN {"reply", "error"} ELSE {"reply"}
SetOutcomes == IF env.faults THEN {"OK", "error"} ELSE {"OK"}

\* ----------------------------------------------------------- processContent
\* return value from the try block
Return(call, value) ==
    [call EXCEPT !.pc = "done", !.result = <<>>,
                 !.out = [status |-> "ok", value |-> <<value>>, error |-> ""]]

\* the catch block: log (reading request.content.length) and rethrow
Throw(call, error) ==
    [call EXCEPT !.pc = "done", !.result = <<>>,
                 !.out = [status |-> "error", value |-> <<>>,
                          error |-> IF Has(call.req, "content") THEN error
                                    ELSE TypeErrorMsg]]

\* this.model.generateContent(...) is called: the invocation is outstanding
InvokeModel(call) ==
    [call EXCEPT !.pc = "model", !.invoked = @ + 1, !.asked = <<PromptOf(call.req)>>]

\* mutant: the switch has no default case and falls into a transform
Dispatch_NoDefault(call) ==
    IF hasModel THEN InvokeModel(call) ELSE Throw(call, TypeErrorMsg)

\* the switch after a cache miss, up to the first await of the transform
Dispatch(call) ==
    IF ~Has(call.req, "type") \/ call.req.type \notin SupportedTypes
    THEN Throw(call, UnsupportedMsg)
    ELSE IF call.req.type = "analyze-sentiment"
    THEN (IF initialized THEN InvokeModel(call) ELSE [call EXCEPT !.pc = "init"])
    ELSE IF hasModel THEN InvokeModel(call)
    ELSE Throw(call, TypeErrorMsg)

\* processContent up to its first await on I/O: the key, then cacheService.get,
\* which answers null at once when the store is not connected
StartCall(request, done) ==
    LET call == [IdleCall EXCEPT !.req = request, !.key = generateCacheKey(Entries(request)),
                                 !.after = done] IN
    IF isConnected THEN [call EXCEPT !.pc = "get"]
    ELSE Dispatch([call EXCEPT !.lookup = "down"])

\* mutant: the cached value is ignored and the model is asked again
OnCacheHit_Recompute(call, cachedResult) == InvokeModel([call EXCEPT !.lookup = "hit"])

\* if (cachedResult) { ...; return JSON.parse(cachedResult); }
OnCacheHit(call, cachedResult) ==
    IF ~Has(call.req, "content") THEN Throw(call, TypeErrorMsg)
    ELSE IF ~Parses(cachedResult)
    THEN Throw([call EXCEPT !.lookup = "hit"], SyntaxErrorMsg)
    ELSE Return([call EXCEPT !.lookup = "hit"], JSONparse(cachedResult))

\* mutant: CacheService.get lets the error of the client through
OnGetError_Rethrow(call) == Throw([call EXCEPT !.lookup = "down"], CacheErrorMsg)

\* client.get threw: the catch of CacheService.get returns null
OnGetError(call) == Dispatch([call EXCEPT !.lookup = "down"])

\* mutant: a write that did not succeed fails the request
OnSetFailed_Rethrow(call, result) ==
    Throw([call EXCEPT !.stored = "down"], CacheErrorMsg)

\* CacheService.set returned false (not connected, or its catch swallowed the
\* error of the client): processContent does not look at it and returns
OnSetFailed(call, result) == Return([call EXCEPT !.stored = "down"], result)

\* mutant: a result that holds the placeholder of a parse failure is
\* returned without being cached
StoreAndReturn_SkipPlaceholder(call, result) ==
    IF result.result = [error |-> "Invalid result format"]
       \/ (Has(result.result, "response")
           /\ result.result.response = [error |-> "Invalid result format"])
    THEN Return(call, result)
    ELSE IF isConnected
    THEN [call EXCEPT !.pc = "set", !.setCalls = @ + 1, !.result = <<result>>]
    ELSE OnSetFailed([call EXCEPT !.setCalls = @ + 1], result)

\* cacheService.set after the transform, then the return of the result
StoreAndReturn(call, result) ==
    IF isConnected
    THEN [call EXCEPT !.pc = "set", !.setCalls = @ + 1, !.result = <<result>>]
    ELSE OnSetFailed([call EXCEPT !.setCalls = @ + 1], result)

\* mutant: the catch block throws an error of its own and drops the cause
OnModelError_Wrapped(call, error) == Throw(call, "AI processing failed")

\* generateContent rejected: the transform rejects with the same error, and the
\* catch block of processContent logs it and throws it again
OnModelError(call, error) == Throw(call, error)

\* mutant: the envelope is built without the text of the model
AfterModel_Blank(call, text, time) ==
    StoreAndReturn([call EXCEPT !.heard = <<text>>],
                   Transform(call.req, <<>>, time))

\* the transform after the model answered: summarizeText reads content.length
AfterModel(call, text, time) ==
    IF ~Has(call.req, "content") THEN Throw(call, TypeErrorMsg)
    ELSE StoreAndReturn([call EXCEPT !.heard = <<text>>],
                        Transform(call.req, text, time))

\* ------------------------------------------------------------- AIController
\* AIController.processContent: the response to a settled processContent
RespondSingle(call) ==
    IF call.out.status = "ok"
    THEN [status |-> OK, body |-> call.out.value]
    ELSE IF call.out.error = UnsupportedMsg
    THEN [status |-> BAD_REQUEST, body |-> <<call.out.error>>]
    ELSE [status |-> INTERNAL_SERVER_ERROR, body |-> <<call.out.error>>]

\* ------------------------------------------------------------- batchProcess
Min(a, b) == IF a < b THEN a ELSE b

\* mutant: the slice is one request too long
WindowOf_Wide(i, n) == (i + 1)..Min(i + batchSize + 1, n)

\* requests.slice(i, i + batchSize), as the indices (from 1) of its requests
WindowOf(i, n) == (i + 1)..Min(i + batchSize, n)

\* mutant: the values are kept in the order in which the promises settle
PlaceValue_Push(values, k, v) ==
    LET open == {j \in 1..Len(values) : values[j] = <<>>}
        first == CHOOSE j \in open : \A x \in open : j <= x
    IN  [values EXCEPT ![first] = v]

\* Promise.all keeps the value of the k-th promise at index k
PlaceValue(values, k, v) == [values EXCEPT ![k] = v]

\* mutant: Promise.race, the window ends with its first request
LastOfWindow_First(b) == TRUE

\* Promise.all resolves with the value that fills its last open place
LastOfWindow(b) == b.remaining = 1

\* results.push(...batchResults)
RECURSIVE Flatten(_)
Flatten(values) ==
    IF values = <<>> THEN <<>> ELSE Head(values) \o Flatten(Tail(values))

\* mutant: a delay after every window, the last one too
MoreWindows_Always(b) == b.i < Len(b.requests)

\* if (i + batchSize < requests.length)
MoreWindows(b) == b.i + batchSize < Len(b.requests)

\* mutant: the results gathered so far are handed out with the error, and
\* the loop index is logged as the window
FailBatch_Partial(b, error) ==
    [b EXCEPT !.pc = "done",
              !.thrown = <<[message |-> error]>>,
              !.log = Append(@, [batchIndex |-> b.i, error |-> error]),
              !.status = INTERNAL_SERVER_ERROR,
              !.body = <<[message |-> "AI batch processing failed", error |-> error,
                          results |-> b.results]>>]

\* the catch of batchProcess logs the window and rethrows the error it caught;
\* the catch of AIController.batchProcess answers 500 with its message
FailBatch(b, error) ==
    [b EXCEPT !.pc = "done",
              !.thrown = <<[message |-> error]>>,
              !.log = Append(@, [batchIndex |-> b.i \div batchSize, error |-> error]),
              !.status = INTERNAL_SERVER_ERROR,
              !.body = <<[message |-> "AI batch processing failed", error |-> error]>>]

\* Promise.all reacting to the settling of the promise of request c, and the
\* code of batchProcess and of AIController.batchProcess that runs when
\* Promise.all settles.  A promise that settles after Promise.all has rejected
\* is ignored.
OnSettle(b, c, call) ==
    LET n == Len(b.requests) IN
    IF b.pc # "window" \/ c \notin WindowOf(b.i, n) THEN b
    ELSE IF call.out.status = "error" THEN FailBatch(b, call.out.error)
    ELSE LET values == PlaceValue(b.values, c - b.i, call.out.value)
             results == b.results \o Flatten(values)
             early == b.reordered \/ \E k \in 1..(c - b.i - 1) : b.values[k] = <<>>
         IN  IF ~LastOfWindow(b)
             THEN [b EXCEPT !.values = values, !.remaining = @ - 1,
                            !.reordered = early]
             ELSE IF MoreWindows(b)
             THEN [b EXCEPT !.values = values, !.remaining = 0,
                            !.results = results, !.pc = "delay",
                            !.delays = Append(@, [ms |-> cooldownMs, after |-> b.i])]
             ELSE [b EXCEPT !.values = values, !.remaining = 0,
                            !.results = results, !.pc = "done",
                            !.status = OK,
                            !.body = <<[results |-> results, count |-> Len(results)]>>]

\* the promises of a window that settled before any I/O, in the order in which
\* their reactions run: a default-case throw rejects one microtask hop before
\* the rejection of a transform does
RECURSIVE SettleFrom(_, _, _, _, _)
SettleFrom(b, cs, from, to, first) ==
    IF from > to THEN b
    ELSE SettleFrom(
            IF cs[from].out.status # "none"
               /\ (cs[from].out.error = UnsupportedMsg) = first
            THEN OnSettle(b, from, cs[from]) ELSE b,
            cs, from + 1, to, first)

\* mutant: Promise.all waits for one promise more than the window holds
StartWindow_OneMore(b, i) ==
    LET n == Len(b.requests)
        w == WindowOf(i, n)
    IN  [b EXCEPT !.pc = "window", !.i = i,
                  !.values = [k \in 1..Cardinality(w) |-> <<>>],
                  !.remaining = Cardinality(w) + 1]

\* one iteration of the for loop up to its await: slice, map, Promise.all
StartWindow(b, i) ==
    LET n == Len(b.requests)
        w == WindowOf(i, n)
    IN  [b EXCEPT !.pc = "window", !.i = i,
                  !.values = [k \in 1..Cardinality(w) |-> <<>>],
                  !.remaining = Cardinality(w)]

\* batch.map((request) => this.processContent(request))
WindowCalls(cs, b, i) ==
    [c \in DOMAIN cs |->
        IF c \in WindowOf(i, Len(b.requests))
        THEN StartCall(b.requests[c], {d \in DOMAIN cs : cs[d].pc = "done"})
        ELSE cs[c]]

\* the batch once the calls cs of the window at i have run to their first await
AfterStart(cs, b, i) ==
    LET n == Len(b.requests)
        lo == i + 1
        hi == Min(i + batchSize, n)
    IN  SettleFrom(SettleFrom(StartWindow(b, i), cs, lo, hi, TRUE), cs, lo, hi, FALSE)

\* the settling of call c, seen by whoever awaits it; r is the exchanges as
\* the running code has left them
SettleWith(c, call, r) ==
    IF call.out.status = "none" THEN resp' = r /\ UNCHANGED batch
    ELSE IF batch.pc = "none"
    THEN /\ resp' = [r EXCEPT ![c].status = RespondSingle(call).status,
                              ![c].body = RespondSingle(call).body]
         /\ UNCHANGED batch
    ELSE batch' = OnSettle(batch, c, call) /\ resp' = r

Settle(c, call) == SettleWith(c, call, resp)

\* ----------------------------------------------------------------- inputs
MaxBatch == 7       \* the longest batch: two windows

Bodies ==
    {[type |-> "summarize", content |-> "abc"],
     [type |-> "analyze-sentiment", content |-> "abc"],
     [type |-> "unknown", content |-> "x"],
     [content |-> "abc"],
     [type |-> "summarize"]}

\* the k-th request of a well-formed batch: the types in turn, every content
\* another one
Contents == <<"a", "ab", "abc", "abcd", "abcde", "abcdef", "abcdefg", "abcdefgh",
              "abcdefghi", "abcdefghij">>

BatchBody(k) ==
    [type |-> CASE k % 3 = 1 -> "summarize"
                [] k % 3 = 2 -> "translate"
                [] OTHER -> "analyze-sentiment",
     content |-> Contents[k]]

GoodBatch(n) == [k \in 1..n |-> BatchBody(k)]

\* a JSON null among the requests
Null == [isNull |-> TRUE]

IsNull(request) == Has(request, "isNull")

Malformed == {[type |-> "summarize"], [content |-> "abc"]}

UnknownBody == [type |-> "unknown", content |-> "x"]

\* the batches: well formed; with a malformed request at any place; with a
\* null in place of a request, alone or after a malformed request; with a
\* request of an unsupported type in the first or in the last window; with a
\* request repeated in its window or in the next one
BatchInputs ==
    {GoodBatch(n) : n \in 0..MaxBatch}
    \cup {[GoodBatch(n) EXCEPT ![j] = bad] :
             n \in {batchSize, MaxBatch}, j \in 1..batchSize, bad \in Malformed}
    \cup {[GoodBatch(batchSize) EXCEPT ![j] = Null] : j \in {1, batchSize}}
    \cup {[GoodBatch(batchSize) EXCEPT ![2] = [content |-> "abc"], ![3] = Null]}
    \cup {[GoodBatch(MaxBatch) EXCEPT ![j] = UnknownBody] : j \in {2, MaxBatch}}
    \cup {[GoodBatch(2) EXCEPT ![2] = BatchBody(1)],
          [GoodBatch(MaxBatch) EXCEPT ![batchSize + 1] = BatchBody(1)]}

\* ------------------------------------------------------------------ actions
\* mutant: the command is acknowledged and nothing is stored
PutEntry_Lost(db, key, entry) == db

\* SET key value EX ttl in the database
PutEntry(db, key, entry) ==
    [k \in DOMAIN db \cup {key} |-> IF k = key THEN entry ELSE db[k]]

RequiredMsg == "Type and content are required fields"

\* mutant: the validation looks at the type only
MissingField_TypeOnly(body) == Falsy(body, "type")

\* if (!type || !content)
MissingField(body) == Falsy(body, "type") \/ Falsy(body, "content")

\* { type, content, options: options || {} }: a property the body lacks is
\* undefined in the request, which for JSON.stringify and for the reads of the
\* service is as if the request lacked it
RequestOf(body) ==
    [f \in (DOMAIN body \cap {"type", "content"}) \cup {"options"} |->
        IF f = "options"
        THEN (IF Has(body, "options") THEN body.options ELSE EmptyObject)
        ELSE body[f]]

\* POST /api/ai/process: AIController.processContent up to its await.  The
\* requests are numbered in the order of their arrival.
ControllerProcess(c, body) ==
    /\ calls[c].pc = "idle"
    /\ resp[c].status = 0
    /\ \A d \in 1..(c - 1) : calls[d].pc # "idle" \/ resp[d].status # 0
    /\ IF MissingField(body)
       THEN /\ resp' = [resp EXCEPT ![c] =
                            [status |-> BAD_REQUEST,
                             body |-> <<RequiredMsg>>,
                             received |-> <<body>>]]
            /\ UNCHANGED <<calls, batch>>
       ELSE LET request == RequestOf(body)
                call == StartCall(request, {d \in DOMAIN calls : calls[d].pc = "done"})
            IN  /\ calls' = [calls EXCEPT ![c] = call]
                /\ SettleWith(c, call, [resp EXCEPT ![c].received = <<body>>])
    /\ UNCHANGED <<cache, isConnected, initialized, hasModel, ctorInit, now, env, client, ops, fps, evicted>>

\* the reply to client.get arrives: CacheService.get returns, and
\* processContent runs to its next await
GetReply(c) ==
    /\ calls[c].pc = "get"
    /\ \E outcome \in GetOutcomes :
         LET call == calls[c]
             cachedResult ==
                 IF outcome = "reply" /\ call.key \in DOMAIN cache
                 THEN <<cache[call.key].value>> ELSE <<>>
             next ==
                 IF cachedResult # <<>> THEN OnCacheHit(call, cachedResult[1])
                 ELSE IF outcome = "error" THEN OnGetError(call)
                 ELSE Dispatch([call EXCEPT !.lookup = "miss"])
         IN  /\ calls' = [calls EXCEPT ![c] = next]
             /\ Settle(c, next)
    /\ UNCHANGED <<cache, isConnected, initialized, hasModel, ctorInit, now, env, client, ops, fps, evicted>>

\* the init() that ensureInitialized awaited ends
InitReply(c) ==
    /\ calls[c].pc = "init"
    /\ \E ok \in BOOLEAN :
         LET next == IF ok THEN InvokeModel(calls[c])
                     ELSE Throw(calls[c], InitFailedMsg)
         IN  /\ initialized' = ok
             /\ hasModel' = (hasModel \/ ok)
             /\ calls' = [calls EXCEPT ![c] = next]
             /\ Settle(c, next)
    /\ UNCHANGED <<cache, isConnected, ctorInit, now, env, client, ops, fps, evicted>>

\* the init() the constructor started ends
CtorInitDone ==
    /\ ctorInit = "pending"
    /\ \E ok \in BOOLEAN :
         /\ initialized' = ok
         /\ hasModel' = (hasModel \/ ok)
    /\ ctorInit' = "done"
    /\ UNCHANGED <<calls, cache, isConnected, now, resp, batch, env, client, ops, fps, evicted>>

\* the model capability answers: the transform builds the envelope, then
\* cacheService.set
ModelReply(c) ==
    /\ calls[c].pc = "model"
    /\ \E o \in ModelOutcomes :
         LET call == calls[c]
             next == IF o.ok THEN AfterModel(call, o.text, now)
                     ELSE OnModelError(call, ModelError)
         IN  /\ calls' = [calls EXCEPT ![c] = next]
             /\ Settle(c, next)
    /\ now' = Min(now + 1, MaxNow)
    /\ UNCHANGED <<cache, isConnected, initialized, hasModel, ctorInit, env, client, ops, fps, evicted>>

\* mutant: the entry is written without an expiry
EntryOf_NoExpiry(result) == [value |-> JSONstringify(result), ttl |-> 0]

\* cacheService.set(cacheKey, JSON.stringify(result), this.cacheTimeout)
EntryOf(result) == [value |-> JSONstringify(result), ttl |-> cacheTimeout]

\* the reply to client.set(key, value, {EX: ttl}) arrives
SetReply(c) ==
    /\ calls[c].pc = "set"
    /\ \E outcome \in SetOutcomes :
         LET call == calls[c]
             entry == EntryOf(call.result[1])
             next == IF outcome = "OK"
                     THEN Return([call EXCEPT !.stored = "ok"], call.result[1])
                     ELSE OnSetFailed(call, call.result[1])
         IN  /\ cache' = IF outcome = "OK" THEN PutEntry(cache, call.key, entry)
                         ELSE cache
             /\ calls' = [calls EXCEPT ![c] = next]
             /\ Settle(c, next)
    /\ UNCHANGED <<isConnected, initialized, hasModel, ctorInit, now, env, client, ops, fps, evicted>>

MaxEvents == 3      \* lifecycle events of the client recorded in LifeSpec

\* The lifecycle events of the store, in the order in which its handlers ran,
\* are recorded in client.events by the specification that starts the client
\* with that field; the others keep no such history.
Recording == Has(client, "events")

\* the handlers run for every event; where the events are recorded, up to
\* MaxEvents of them are followed
CanHear == Recording => Len(client.events) < MaxEvents

Hear(cl, e) == IF Has(cl, "events") THEN [cl EXCEPT !.events = Append(@, e)] ELSE cl

\* the redis client's 'ready' event; a client that has quit emits none
RedisReady ==
    /\ client.made
    /\ client.quit # "resolved"
    /\ ~isConnected \/ Recording
    /\ CanHear
    /\ isConnected' = TRUE
    /\ client' = Hear(client, "ready")
    /\ UNCHANGED <<calls, cache, initialized, hasModel, ctorInit, now, resp, batch, env, ops, fps, evicted>>

\* mutant: the handlers of 'error' and 'end' only log
RedisError_LogOnly ==
    /\ client.made
    /\ isConnected \/ Recording
    /\ CanHear
    /\ \E e \in {"error", "end"} : client' = Hear(client, e)
    /\ UNCHANGED isConnected
    /\ UNCHANGED <<calls, cache, initialized, hasModel, ctorInit, now, resp, batch, env, ops, fps, evicted>>

\* the redis client's 'error' or 'end' event
RedisError ==
    /\ client.made
    /\ isConnected \/ Recording
    /\ CanHear
    /\ \E e \in {"error", "end"} : client' = Hear(client, e)
    /\ isConnected' = FALSE
    /\ UNCHANGED <<calls, cache, initialized, hasModel, ctorInit, now, resp, batch, env, ops, fps, evicted>>

\* the ttl of an entry runs out, or someone deletes the entry (DEL)
Expire(k) ==
    /\ k \in DOMAIN cache
    /\ cache' = [x \in DOMAIN cache \ {k} |-> cache[x]]
    /\ evicted' = TRUE
    /\ UNCHANGED <<calls, isConnected, initialized, hasModel, ctorInit, now, resp, batch, env, client, ops, fps>>

\* someone clears the cache (FLUSHDB)
FlushDb ==
    /\ DOMAIN cache # {}
    /\ cache' = [x \in {} |-> x]
    /\ evicted' = TRUE
    /\ UNCHANGED <<calls, isConnected, initialized, hasModel, ctorInit, now, resp, batch, env, client, ops, fps>>

\* the TypeError of reading a property of null
NullTypeError == "Cannot read properties of null (reading 'type')"

\* !request.type || !request.content, for a request that is an object
Incomplete(request) == Falsy(request, "type") \/ Falsy(request, "content")

\* for (const request of requests) if (!request.type || !request.content):
\* the loop stops at the first request that is null, where reading its type
\* throws, or that lacks a field, where it answers 400
FirstFault(requests) ==
    LET faulty == {k \in 1..Len(requests) :
                      IsNull(requests[k]) \/ Incomplete(requests[k])}
    IN  IF faulty = {} THEN 0
        ELSE CHOOSE k \in faulty : \A j \in faulty : k <= j

\* POST /api/ai/batch: AIController.batchProcess and AIService.batchProcess up
\* to the first await
ControllerBatch(requests) ==
    /\ batch.pc = "idle"
    /\ LET f == FirstFault(requests) IN
       IF Len(requests) = 0
       THEN /\ batch' = [batch EXCEPT !.pc = "done", !.requests = requests,
                            !.status = BAD_REQUEST,
                            !.body = <<[message |-> "Valid requests array is required"]>>]
            /\ UNCHANGED calls
       ELSE IF f # 0 /\ IsNull(requests[f])
       THEN /\ batch' = [batch EXCEPT !.pc = "done", !.requests = requests,
                            !.status = INTERNAL_SERVER_ERROR,
                            !.body = <<[message |-> "AI batch processing failed",
                                        error |-> NullTypeError]>>]
            /\ UNCHANGED calls
       ELSE IF f # 0
       THEN /\ batch' = [batch EXCEPT !.pc = "done", !.requests = requests,
                            !.status = BAD_REQUEST,
                            !.body = <<[message |-> "Each request must include type and content"]>>]
            /\ UNCHANGED calls
       ELSE LET b == [batch EXCEPT !.requests = requests]
                cs == WindowCalls([c \in 1..Len(requests) |-> IdleCall], b, 0)
            IN  /\ calls' = cs
                /\ batch' = AfterStart(cs, b, 0)
    /\ UNCHANGED <<cache, isConnected, initialized, hasModel, ctorInit, now, resp, env, client, ops, fps, evicted>>

\* mutant: the catch of batchProcess swallows the error and the loop goes on
\* with the next window
DelayDone_AfterFailure ==
    /\ \/ batch.pc = "delay"
       \/ batch.pc = "done" /\ batch.thrown # <<>> /\ MoreWindows(batch)
    /\ LET i == batch.i + batchSize
           cs == WindowCalls(calls, batch, i)
       IN  /\ calls' = cs
           /\ batch' = AfterStart(cs, batch, i)
    /\ UNCHANGED <<cache, isConnected, initialized, hasModel, ctorInit, now, resp, env, client, ops, fps, evicted>>

\* the cooldown timer fires: the next iteration of the for loop
DelayDone ==
    /\ batch.pc = "delay"
    /\ LET i == batch.i + batchSize
           cs == WindowCalls(calls, batch, i)
       IN  /\ calls' = cs
           /\ batch' = AfterStart(cs, batch, i)
    /\ UNCHANGED <<cache, isConnected, initialized, hasModel, ctorInit, now, resp, env, client, ops, fps, evicted>>

\* ------------------------------------------------------------ CacheService
MaxOps == 2         \* calls of store operations in StoreSpec

StoreOps ==
    {"get", "set", "delete", "exists", "expire", "clear", "getJSON", "setJSON"}

StoreKey == "test:key"

\* an object JSON.stringify throws on
Cyclic == [cyclic |-> TRUE]

\* the values setJSON is called with, and the texts set is called with
StoreValues == {summarizeText("abc", <<>>, 0), Cyclic}
StoreTexts == {NotJSON, JSONstringify(summarizeText("abc", <<"7">>, 0))}

\* what an operation returns: null, a boolean, a text, a parsed value
Null_ == <<"null">>
Bool(b) == <<"bool", b>>
Text(t) == <<"text", t>>
Parsed(v) == <<"json", v>>

\* return null of get and getJSON, return false of the others
EmptyOf(name) == IF name \in {"get", "getJSON"} THEN Null_ ELSE Bool(FALSE)

\* A call of an operation of CacheService.  saw is what it met: the store
\* unavailable, JSON.stringify throwing, an error of the client, or the key
\* absent or present at the backend; commands counts the commands it gave
\* the client; threw: it ended by throwing to its caller; after is the set
\* of calls that had returned when it was made.
IdleOp ==
    [name |-> "", key |-> "", arg |-> <<>>, pc |-> "idle", saw |-> "none",
     commands |-> 0, ret |-> <<>>, threw |-> FALSE, after |-> {}]

\* mutant: only a missing client counts, the connection flag is not read
Unavailable_NoClientOnly == ~client.made

\* if (!this.client || !this.isConnected)
Unavailable == ~client.made \/ ~isConnected

\* mutant: the catch block throws the error again
GiveUp_Rethrow(op, why) == [op EXCEPT !.pc = "done", !.saw = why, !.threw = TRUE]

\* the early return of an unavailable store, and the return of a catch block
GiveUp(op, why) ==
    [op EXCEPT !.pc = "done", !.saw = why, !.ret = EmptyOf(op.name)]

\* the text set and setJSON hand to client.set
TextOf(op) ==
    IF op.name = "setJSON" THEN JSONstringify(op.arg[1]) ELSE op.arg[1]

\* the return value of an operation whose command the backend answered
ReplyOf(op, db) ==
    LET present == op.key \in DOMAIN db IN
    CASE op.name = "get" -> IF present THEN Text(db[op.key].value) ELSE Null_
      [] op.name = "getJSON" ->
            IF present /\ Parses(db[op.key].value)
            THEN Parsed(JSONparse(db[op.key].value)) ELSE Null_
      [] op.name \in {"set", "setJSON", "clear"} -> Bool(TRUE)
      [] OTHER -> Bool(present)

\* mutant: DEL is acknowledged and the entry stays
EffectOf_DelKeeps(op, db) ==
    CASE op.name \in {"set", "setJSON"} ->
            PutEntry(db, op.key, [value |-> TextOf(op), ttl |-> defaultTTL])
      [] op.name = "clear" -> [k \in {} |-> k]
      [] OTHER -> db

\* what the command does to the database
EffectOf(op, db) ==
    CASE op.name \in {"set", "setJSON"} ->
            PutEntry(db, op.key, [value |-> TextOf(op), ttl |-> defaultTTL])
      [] op.name = "delete" -> [k \in DOMAIN db \ {op.key} |-> db[k]]
      [] op.name = "clear" -> [k \in {} |-> k]
      [] op.name = "expire" /\ op.key \in DOMAIN db ->
            [db EXCEPT ![op.key].ttl = cacheTimeout]
      [] OTHER -> db

ArgsOf(name) ==
    CASE name = "set" -> {<<t>> : t \in StoreTexts}
      [] name = "setJSON" -> {<<v>> : v \in StoreValues}
      [] OTHER -> {<<>>}

\* an operation of CacheService is called and runs to its first await on the
\* client, or to its return
StoreCall(o, name, arg) ==
    /\ ops[o].pc = "idle"
    /\ \A d \in 1..(o - 1) : ops[d].pc # "idle"
    /\ LET op == [IdleOp EXCEPT !.name = name, !.arg = arg,
                                !.key = IF name = "clear" THEN "" ELSE StoreKey,
                                !.after = {d \in DOMAIN ops : ops[d].pc = "done"}]
           next == IF name = "setJSON" /\ arg = <<Cyclic>> THEN GiveUp(op, "thrown")
                   ELSE IF Unavailable THEN GiveUp(op, "unavailable")
                   ELSE [op EXCEPT !.pc = "sent", !.commands = @ + 1]
       IN  ops' = [ops EXCEPT ![o] = next]
    /\ UNCHANGED <<calls, cache, isConnected, initialized, hasModel, ctorInit, now,
                   resp, batch, env, evicted, client, fps>>

\* the client answers the command, or rejects it
StoreReply(o) ==
    /\ ops[o].pc = "sent"
    /\ \E outcome \in {"reply", "error"} :
         LET op == ops[o] IN
         IF outcome = "error"
         THEN /\ ops' = [ops EXCEPT ![o] = GiveUp(op, "error")]
              /\ UNCHANGED <<cache, evicted>>
         ELSE /\ ops' = [ops EXCEPT ![o] =
                            [op EXCEPT !.pc = "done", !.ret = ReplyOf(op, cache),
                                       !.saw = IF op.key \in DOMAIN cache
                                               THEN "present" ELSE "absent"]]
              /\ cache' = EffectOf(op, cache)
              /\ evicted' = (evicted \/ op.name \in {"delete", "clear"})
    /\ UNCHANGED <<calls, isConnected, initialized, hasModel, ctorInit, now,
                   resp, batch, env, client, fps>>

\* the connect() that init() awaits resolves, or rejects and the catch block
\* of init() runs
ConnectReply ==
    /\ client.made
    /\ client.connect = "pending"
    /\ \E ok \in BOOLEAN :
         IF ok
         THEN /\ isConnected
              /\ client' = [client EXCEPT !.connect = "resolved"]
              /\ UNCHANGED isConnected
         ELSE /\ CanHear
              /\ client' = Hear([client EXCEPT !.connect = "rejected"], "init failed")
              /\ isConnected' = FALSE
    /\ UNCHANGED <<calls, cache, initialized, hasModel, ctorInit, now, resp, batch,
                   env, evicted, ops, fps>>

\* close() is called: if (this.client) await this.client.quit()
CloseCall ==
    /\ client.made
    /\ client.quit = "none"
    /\ client' = [client EXCEPT !.quit = "pending"]
    /\ UNCHANGED <<calls, cache, isConnected, initialized, hasModel, ctorInit, now,
                   resp, batch, env, evicted, ops, fps>>

\* quit() resolves and close() clears the flag, or quit() rejects and close()
\* throws what it caught
QuitReply ==
    /\ client.quit = "pending"
    /\ \E ok \in BOOLEAN :
         IF ok
         THEN /\ CanHear
              /\ client' = Hear([client EXCEPT !.quit = "resolved"], "close")
              /\ isConnected' = FALSE
         ELSE /\ client' = [client EXCEPT !.quit = "rejected"]
              /\ UNCHANGED isConnected
    /\ UNCHANGED <<calls, cache, initialized, hasModel, ctorInit, now, resp, batch,
                   env, evicted, ops, fps>>

\* ------------------------------------------------------------ specifications
\* the state after construction: the store not yet connected, the model
\* client not yet initialized
Init ==
    /\ calls = [c \in 1..MaxCalls |-> IdleCall]
    /\ cache = [k \in {} |-> k]
    /\ isConnected = FALSE
    /\ initialized = FALSE
    /\ hasModel = FALSE
    /\ ctorInit = "pending"
    /\ now = 0
    /\ resp = [c \in 1..MaxCalls |-> NoResp]
    /\ batch = NoBatch
    /\ env = [texts |-> ModelTexts, faults |-> TRUE, bodies |-> Bodies]
    /\ evicted = FALSE
    /\ client = [made |-> TRUE, connect |-> "pending", quit |-> "none"]
    /\ ops = <<>>
    /\ fps = <<>>

Next ==
    \/ \E c \in DOMAIN calls, body \in env.bodies : ControllerProcess(c, body)
    \/ \E c \in DOMAIN calls : GetReply(c)
    \/ \E c \in DOMAIN calls : InitReply(c)
    \/ \E c \in DOMAIN calls : ModelReply(c)
    \/ \E c \in DOMAIN calls : SetReply(c)
    \/ CtorInitDone
    \/ RedisReady
    \/ RedisError
    \/ \E k \in DOMAIN cache : Expire(k)
    \/ FlushDb

Spec == Init /\ [][Next]_vars

\* the service started on a store that already holds, under the key of a
\* request, a value this program did not write and that is not JSON
ForeignRequest == RequestOf([type |-> "summarize", content |-> "abc"])

ForeignInit ==
    /\ env = [texts |-> ModelTexts, faults |-> TRUE, bodies |-> Bodies]
    /\ calls = [c \in 1..MaxCalls |-> IdleCall]
    /\ cache = PutEntry([k \in {} |-> k], generateCacheKey(Entries(ForeignRequest)),
                        [value |-> NotJSON, ttl |-> cacheTimeout])
    /\ isConnected = FALSE
    /\ initialized = FALSE
    /\ hasModel = FALSE
    /\ ctorInit = "pending"
    /\ now = 0
    /\ resp = [c \in 1..MaxCalls |-> NoResp]
    /\ batch = NoBatch
    /\ evicted = FALSE
    /\ client = [made |-> TRUE, connect |-> "pending", quit |-> "none"]
    /\ ops = <<>>
    /\ fps = <<>>

ForeignSpec == ForeignInit /\ [][Next]_vars

\* what the model capability may answer to a request for JSON: JSON texts,
\* bare, fenced, with one fence only, with a line break before the closing
\* fence; texts that are not JSON, bare and fenced; a fenced JSON text with a
\* line break after the closing fence
ParseTexts ==
    {<<"7">>, <<"4", "2">>, <<>>, <<"x">>,
     FenceOpen \o <<"7">> \o FenceClose,
     FenceOpen \o <<"4", "2", "\n">> \o FenceClose,
     FenceOpen \o <<"x">> \o FenceClose,
     FenceOpen \o <<"7">>,
     <<"7">> \o FenceClose,
     FenceOpen \o <<"7">> \o FenceClose \o <<"\n">>}

ParseBodies ==
    {[type |-> "analyze-sentiment", content |-> "abc"],
     [type |-> "extract-keywords", content |-> "abc"]}

\* two requests whose results are parsed from the text of the model
ParseInit ==
    /\ calls = <<IdleCall, IdleCall>>
    /\ cache = [k \in {} |-> k]
    /\ isConnected = FALSE
    /\ initialized = FALSE
    /\ hasModel = FALSE
    /\ ctorInit = "pending"
    /\ now = 0
    /\ resp = <<NoResp, NoResp>>
    /\ batch = NoBatch
    /\ env = [texts |-> ParseTexts, faults |-> FALSE, bodies |-> ParseBodies]
    /\ evicted = FALSE
    /\ client = [made |-> TRUE, connect |-> "pending", quit |-> "none"]
    /\ ops = <<>>
    /\ fps = <<>>

ParseSpec == ParseInit /\ [][Next]_vars

\* requests of the five types, with and without options; temperatures are in
\* tenths
TransformBodies ==
    {[type |-> "summarize", content |-> "abc", options |-> [maxLength |-> 0]],
     [type |-> "summarize", content |-> "abc",
      options |-> [maxLength |-> 50, style |-> "brief"]],
     [type |-> "analyze-sentiment", content |-> "abc"],
     [type |-> "extract-keywords", content |-> "abc"],
     [type |-> "generate-content", content |-> "abc"],
     [type |-> "generate-content", content |-> "abc",
      options |-> [temperature |-> 0, maxTokens |-> 10]],
     [type |-> "translate", content |-> "abc",
      options |-> [preserveFormatting |-> FALSE]],
     [type |-> "translate", content |-> "abc",
      options |-> [targetLanguage |-> "French", preserveFormatting |-> TRUE]]}

TransformInit ==
    /\ calls = <<IdleCall, IdleCall>>
    /\ cache = [k \in {} |-> k]
    /\ isConnected = FALSE
    /\ initialized = FALSE
    /\ hasModel = FALSE
    /\ ctorInit = "pending"
    /\ now = 0
    /\ resp = <<NoResp, NoResp>>
    /\ batch = NoBatch
    /\ env = [texts |-> {<<"7">>}, faults |-> FALSE, bodies |-> TransformBodies]
    /\ evicted = FALSE
    /\ client = [made |-> TRUE, connect |-> "pending", quit |-> "none"]
    /\ ops = <<>>
    /\ fps = <<>>

TransformSpec == TransformInit /\ [][Next]_vars

\* the store on its own: constructed (createClient may have thrown), then
\* called while the client connects, is connected, or has lost the backend
StoreInit ==
    /\ calls = <<>>
    /\ cache \in {[k \in {} |-> k],
                  [k \in {StoreKey} |-> [value |-> NotJSON, ttl |-> defaultTTL]]}
    /\ isConnected = FALSE
    /\ initialized = FALSE
    /\ hasModel = FALSE
    /\ ctorInit = "pending"
    /\ now = 0
    /\ resp = <<>>
    /\ batch = NoBatch
    /\ env = [texts |-> ModelTexts, faults |-> TRUE, bodies |-> Bodies]
    /\ evicted = FALSE
    /\ client \in {[made |-> TRUE, connect |-> "pending", quit |-> "none"],
                   [made |-> FALSE, connect |-> "rejected", quit |-> "none"]}
    /\ ops = [o \in 1..MaxOps |-> IdleOp]
    /\ fps = <<>>

StoreNext ==
    \/ \E o \in 1..MaxOps, name \in StoreOps : \E arg \in ArgsOf(name) :
          StoreCall(o, name, arg)
    \/ \E o \in DOMAIN ops : StoreReply(o)
    \/ ConnectReply
    \/ RedisReady
    \/ RedisError

StoreSpec == StoreInit /\ [][StoreNext]_vars

\* the store through its life: constructed, connecting, events of the client
\* arriving in any order, close() called once, and two operations called at
\* any moment in between
LifeInit ==
    /\ calls = <<>>
    /\ cache = [k \in {StoreKey} |-> [value |-> NotJSON, ttl |-> defaultTTL]]
    /\ isConnected = FALSE
    /\ initialized = FALSE
    /\ hasModel = FALSE
    /\ ctorInit = "pending"
    /\ now = 0
    /\ resp = <<>>
    /\ batch = NoBatch
    /\ env = [texts |-> ModelTexts, faults |-> TRUE, bodies |-> Bodies]
    /\ evicted = FALSE
    /\ client = [made |-> TRUE, connect |-> "pending", quit |-> "none", events |-> <<>>]
    /\ ops = <<IdleOp, IdleOp>>
    /\ fps = <<>>

LifeNext ==
    \/ \E o \in DOMAIN ops, name \in StoreOps : \E arg \in ArgsOf(name) :
          StoreCall(o, name, arg)
    \/ \E o \in DOMAIN ops : StoreReply(o)
    \/ ConnectReply
    \/ RedisReady
    \/ RedisError
    \/ CloseCall
    \/ QuitReply

LifeSpec == LifeInit /\ [][LifeNext]_vars

\* one batch request arriving at a running service
BatchInit ==
    /\ calls = <<>>
    /\ cache = [k \in {} |-> k]
    /\ isConnected \in BOOLEAN
    /\ initialized = TRUE
    /\ hasModel = TRUE
    /\ ctorInit = "done"
    /\ now = MaxNow
    /\ resp = <<>>
    /\ batch = [NoBatch EXCEPT !.pc = "idle"]
    /\ env = [texts |-> {<<"7">>}, faults |-> FALSE]
    /\ evicted = FALSE
    /\ client = [made |-> TRUE, connect |-> "resolved", quit |-> "none"]
    /\ ops = <<>>
    /\ fps = <<>>

BatchNext ==
    \/ \E requests \in BatchInputs : ControllerBatch(requests)
    \/ DelayDone
    \/ \E c \in DOMAIN calls : GetReply(c)
    \/ \E c \in DOMAIN calls : ModelReply(c)
    \/ \E c \in DOMAIN calls : SetReply(c)

BatchSpec == BatchInit /\ [][BatchNext]_vars

\* the lists batchProcess is called with by a caller of the service other
\* than the controller: requests that have their type and content, none too
ServiceInputs == {requests \in BatchInputs : FirstFault(requests) = 0}

\* AIService.batchProcess called with a list as it is, up to its first await.
\* With no request the for loop is not entered and results is returned.
\* (status and body of the batch are what AIController.batchProcess would
\* answer with the outcome.)
batchProcess(requests) ==
    /\ batch.pc = "idle"
    /\ IF Len(requests) = 0
       THEN /\ batch' = [batch EXCEPT !.pc = "done", !.requests = requests,
                                      !.results = <<>>]
            /\ UNCHANGED calls
       ELSE LET b == [batch EXCEPT !.requests = requests]
                cs == WindowCalls([c \in 1..Len(requests) |-> IdleCall], b, 0)
            IN  /\ calls' = cs
                /\ batch' = AfterStart(cs, b, 0)
    /\ UNCHANGED <<cache, isConnected, initialized, hasModel, ctorInit, now, resp, env, client, ops, fps, evicted>>

\* the backend or the model capability answers a processContent call
Replies == \E c \in DOMAIN calls : GetReply(c) \/ ModelReply(c) \/ SetReply(c)

ServiceNext ==
    \/ \E requests \in ServiceInputs : batchProcess(requests)
    \/ DelayDone
    \/ Replies

\* batchProcess on its own, with every command to the backend and every
\* model invocation answered in the end and the timer of every delay firing
ServiceSpec ==
    BatchInit /\ [][ServiceNext]_vars /\ WF_vars(Replies) /\ WF_vars(DelayDone)

\* ------------------------------------------- the keys of requests, by path
MaxKeys == 2

\* Request objects as they arrive in a JSON body: the properties and the order
\* in which the body lists them.  The first four carry the same type, content
\* and (empty) options: options left out, options empty, the properties in
\* another order, one more property.  The last two differ in type only.
KeyWires ==
    { [fields |-> [type |-> "t", content |-> "c"],
       order |-> <<"type", "content">>, optionOrder |-> <<>>],
      [fields |-> [type |-> "t", content |-> "c", options |-> EmptyObject],
       order |-> <<"type", "content", "options">>,
       optionOrder |-> <<>>],
      [fields |-> [type |-> "t", content |-> "c"],
       order |-> <<"content", "type">>, optionOrder |-> <<>>],
      [fields |-> [type |-> "t", content |-> "c", id |-> "1"],
       order |-> <<"type", "content", "id">>, optionOrder |-> <<>>],
      [fields |-> [type |-> "u", content |-> "c"],
       order |-> <<"type", "content">>, optionOrder |-> <<>>],
      [fields |-> [type |-> "t:f", content |-> "c"],
       order |-> <<"type", "content">>, optionOrder |-> <<>>] }

\* the request AIController.processContent passes to the service
SingleRequest(wire) ==
    EntriesIn(RequestOf(wire.fields), PropertyOrder, wire.optionOrder)

\* the request AIController.batchProcess passes on: the element of the body
BatchRequest(wire) == EntriesIn(wire.fields, wire.order, wire.optionOrder)

\* Request objects with the same type, content and options, the options
\* holding two pairs: the option keys in one order and in the other, the
\* fields in another order; and one with another value of an option.
SomeOptions == [maxLength |-> 50, style |-> "brief"]

OrderWires ==
    { [fields |-> [type |-> "t", content |-> "c", options |-> SomeOptions],
       order |-> <<"type", "content", "options">>,
       optionOrder |-> <<"maxLength", "style">>],
      [fields |-> [type |-> "t", content |-> "c", options |-> SomeOptions],
       order |-> <<"type", "content", "options">>,
       optionOrder |-> <<"style", "maxLength">>],
      [fields |-> [type |-> "t", content |-> "c", options |-> SomeOptions],
       order |-> <<"options", "content", "type">>,
       optionOrder |-> <<"maxLength", "style">>],
      [fields |-> [type |-> "t", content |-> "c",
                   options |-> [SomeOptions EXCEPT !.maxLength = 60]],
       order |-> <<"type", "content", "options">>,
       optionOrder |-> <<"maxLength", "style">>] }

\* every text md5 is applied to, for the requests of wires
KeyTexts(wires) ==
    {JSONstringifyObject(SingleRequest(w)) : w \in wires}
        \cup {JSONstringifyObject(BatchRequest(w)) : w \in wires}

Fingerprint(path, wire, request) ==
    /\ Len(fps) < MaxKeys
    /\ fps' = Append(fps, [path |-> path, wire |-> wire, request |-> request,
                           key |-> generateCacheKey(request)])
    /\ UNCHANGED <<calls, cache, isConnected, initialized, hasModel, ctorInit,
                   now, resp, batch, env, evicted, client, ops>>

\* POST /api/ai/process up to the key of the request
FingerprintSingle(wire) ==
    /\ ~MissingField(wire.fields)
    /\ Fingerprint("process", wire, SingleRequest(wire))

\* POST /api/ai/batch, the wire object an element of requests, up to its key
FingerprintBatch(wire) ==
    /\ ~Incomplete(wire.fields)
    /\ Fingerprint("batch", wire, BatchRequest(wire))

KeyInit ==
    /\ calls = <<>>
    /\ cache = PutEntry([k \in {} |-> k], <<"ai", ":", "t", ":", "0">>,
                        [value |-> NotJSON, ttl |-> cacheTimeout])
    /\ isConnected = TRUE
    /\ initialized = TRUE
    /\ hasModel = TRUE
    /\ ctorInit = "done"
    /\ now = 0
    /\ resp = <<>>
    /\ batch = NoBatch
    /\ \E h \in [KeyTexts(KeyWires) -> Digests] :
         env = [texts |-> {<<"7">>}, faults |-> FALSE, md5 |-> h,
                wires |-> KeyWires]
    /\ evicted = FALSE
    /\ client = [made |-> TRUE, connect |-> "resolved", quit |-> "none"]
    /\ ops = <<>>
    /\ fps = <<>>

KeyNext ==
    \/ \E wire \in env.wires : FingerprintSingle(wire)
    \/ \E wire \in env.wires : FingerprintBatch(wire)
    \/ \E k \in DOMAIN cache : Expire(k)

KeySpec == KeyInit /\ [][KeyNext]_vars

\* the keys of requests that differ in the order of their properties only
OrderInit ==
    /\ calls = <<>>
    /\ cache = PutEntry([k \in {} |-> k], <<"ai", ":", "t", ":", "0">>,
                        [value |-> NotJSON, ttl |-> cacheTimeout])
    /\ isConnected = TRUE
    /\ initialized = TRUE
    /\ hasModel = TRUE
    /\ ctorInit = "done"
    /\ now = 0
    /\ resp = <<>>
    /\ batch = NoBatch
    /\ \E h \in [KeyTexts(OrderWires) -> Digests] :
         env = [texts |-> {<<"7">>}, faults |-> FALSE, md5 |-> h,
                wires |-> OrderWires]
    /\ evicted = FALSE
    /\ client = [made |-> TRUE, connect |-> "resolved", quit |-> "none"]
    /\ ops = <<>>
    /\ fps = <<>>

OrderSpec == OrderInit /\ [][KeyNext]_vars

\* ------------------------------------------------------------------- claims
\* the commands of call c to the backend were answered: the cache was
\* reachable for it
Served(c) ==
    /\ calls[c].lookup \in {"hit", "miss"}
    /\ calls[c].stored \in {"none", "ok"}

\* C1: whenever processContent finds a cached value under the key of the
\* request, it returns JSON.parse of that value, and neither then nor later
\* calls the model capability or cacheService.set for that request.
C1_HitReturnsCachedValue ==
    [][\A c \in DOMAIN calls \cap DOMAIN calls' :
          /\ (calls[c].pc = "get" /\ calls'[c].pc # "get"
                /\ calls[c].key \in DOMAIN cache /\ calls'[c].lookup # "down")
             => /\ calls'[c].lookup = "hit"
                /\ calls'[c].out =
                      [status |-> "ok", error |-> "",
                       value |-> <<JSONparse(cache[calls[c].key].value)>>]
          /\ calls'[c].lookup = "hit"
             => /\ calls'[c].pc = "done"
                /\ calls'[c].invoked = 0
                /\ calls'[c].setCalls = 0]_vars

C1_Witness ==
    \E c \in DOMAIN calls : calls[c].lookup = "hit" /\ calls[c].out.status = "ok"

\* C2 (as claimed): with the cache reachable and nothing expired or removed,
\* of two successive processContent calls with the same request, the second
\* started after the first returned, the two invoke the model at most once
\* in total and the second returns a value equal to the result of the first.
C2_SecondCallEqualsFirst ==
    \A c1, c2 \in DOMAIN calls :
        (/\ c1 \in calls[c2].after
         /\ calls[c1].req = calls[c2].req
         /\ calls[c1].out.status = "ok"
         /\ calls[c2].pc = "done"
         /\ Served(c1) /\ Served(c2)
         /\ ~evicted)
        => /\ calls[c1].invoked + calls[c2].invoked <= 1
           /\ calls[c2].out.status = "ok"
           /\ calls[c2].out.value = calls[c1].out.value

C4_CacheDownStillServes ==
    \A c \in DOMAIN calls :
        (/\ calls[c].pc = "done"
         /\ calls[c].lookup = "down"
         /\ calls[c].stored \in {"none", "down"}
         /\ calls[c].req.type \in SupportedTypes)
        => /\ calls[c].out.error # CacheErrorMsg
           /\ calls[c].out.status = "ok"
              => /\ calls[c].invoked = 1
                 /\ calls[c].setCalls = 1
                 /\ \E t \in ModelTexts, time \in 0..MaxNow :
                       calls[c].out.value = <<Transform(calls[c].req, t, time)>>
           /\ calls[c].out.status = "error"
              => /\ calls[c].out.error \in {ModelError, TypeErrorMsg, InitFailedMsg}
                 /\ (calls[c].out.error = ModelError) = (calls[c].invoked = 1)

C4_Witness ==
    \E c \in DOMAIN calls :
        /\ calls[c].lookup = "down"
        /\ calls[c].stored = "down"
        /\ calls[c].invoked = 1
        /\ calls[c].out.status = "ok"

\* the window (from 0) of the request at index c (from 1)
WindowIndex(c) == (c - 1) \div batchSize

\* batchProcess was entered: the controller found no fault with the requests
Entered == batch.pc \in {"window", "delay"} \/ (batch.pc = "done" /\ calls # <<>>)

\* C5: when batchProcess succeeds, the returned sequence is as long as the
\* input and its i-th element is what processContent returned for the i-th
\* request; while a window runs, Promise.all holds each value at the place of
\* its request, whatever the order of completion.
C5_ResultsInRequestOrder ==
    /\ (batch.pc = "done" /\ batch.status = OK)
       => LET r == batch.body[1].results IN
          /\ Len(r) = Len(batch.requests)
          /\ batch.body[1].count = Len(batch.requests)
          /\ \A k \in 1..Len(r) :
                /\ calls[k].req = batch.requests[k]
                /\ calls[k].out.status = "ok"
                /\ r[k] = calls[k].out.value[1]
                /\ r[k].type = batch.requests[k].type
    /\ batch.pc = "window"
       => \A k \in WindowOf(batch.i, Len(batch.requests)) :
             batch.values[k - batch.i] # <<>>
             => batch.values[k - batch.i] = calls[k].out.value

C5_Witness ==
    /\ batch.pc = "done"
    /\ batch.status = OK
    /\ batch.reordered
    /\ Len(batch.body[1].results) = MaxBatch

\* C6: no request of a later window is started (it has made no cache lookup
\* and no model invocation) until every request of the earlier windows has
\* completed.
C6_WindowsDoNotOverlap ==
    \A c, d \in DOMAIN calls :
        (WindowIndex(c) < WindowIndex(d) /\ calls[d].pc # "idle")
        => calls[c].pc = "done" /\ calls[c].out.status = "ok"

C6_Witness ==
    \E c, d \in DOMAIN calls :
        /\ WindowIndex(c) < WindowIndex(d)
        /\ calls[d].pc = "model"
        /\ calls[d].invoked = 1

C8_AtMostBatchSizeOutstanding ==
    Cardinality({c \in DOMAIN calls : calls[c].pc = "model"}) <= batchSize

C8_Witness ==
    Cardinality({c \in DOMAIN calls : calls[c].pc = "model"}) = batchSize

\* C9: batchProcess makes one delay of 1000 ms between two consecutive
\* windows, after every request of the earlier one has completed and before
\* any request of the later one starts, and none after the last window.
C9_OneDelayBetweenWindows ==
    LET n == Len(batch.requests)
        w == batch.i \div batchSize
    IN  /\ \A k \in 1..Len(batch.delays) :
              batch.delays[k] = [ms |-> cooldownMs, after |-> (k - 1) * batchSize]
        /\ batch.pc = "window" => Len(batch.delays) = w
        /\ (batch.pc = "done" /\ Entered) => Len(batch.delays) = w
        /\ (batch.pc = "done" /\ batch.status = OK)
           => Len(batch.delays) = (n - 1) \div batchSize
        /\ batch.pc = "delay"
           => /\ Len(batch.delays) = w + 1
              /\ batch.i + batchSize < n
              /\ \A c \in DOMAIN calls :
                    IF c <= batch.i + batchSize THEN calls[c].pc = "done"
                    ELSE calls[c].pc = "idle"

C9_Witness ==
    /\ batch.pc = "done"
    /\ batch.status = OK
    /\ Len(batch.requests) > batchSize
    /\ Len(batch.delays) = 1

\* what the requests of the batch made of the cache and of the model
Untouched == calls = <<>> /\ DOMAIN cache = {}

\* C10 (as claimed): a batch in which a request lacks type or content is
\* rejected as a whole as an invalid request (status 400) before any of its
\* requests causes a cache operation or a model invocation, wherever the
\* malformed request sits.
C10_MalformedBatchRejectedUpFront ==
    (batch.pc # "idle" /\ FirstFault(batch.requests) # 0)
    => /\ batch.pc = "done"
       /\ batch.status = BAD_REQUEST
       /\ Untouched

\* the calls processContent received with a type outside the supported five
Unsupported(c) ==
    calls[c].pc # "idle" /\ calls[c].req.type \notin SupportedTypes

\* C11 (as claimed): processContent called with a type outside the five
\* supported values fails with the unsupported-type error and performs no
\* cache operation, neither read nor write (no command for it reaches the
\* store), and no model invocation.
C11_UnsupportedTypeNoCacheOperation ==
    \A c \in DOMAIN calls :
        Unsupported(c)
        => /\ calls[c].pc # "get"
           /\ calls[c].lookup \in {"none", "down"}
           /\ calls[c].setCalls = 0
           /\ calls[c].invoked = 0
           /\ calls[c].pc = "done"
              => /\ calls[c].out.status = "error"
                 /\ calls[c].out.error = UnsupportedMsg

\* C11 (amended): processContent called with a type outside the five
\* supported values first looks the key of the request up with
\* cacheService.get, and after the miss fails with the unsupported-type
\* error; it performs no cache write and no model invocation.
C11_UnsupportedTypeFailsAfterLookup ==
    \A c \in DOMAIN calls :
        Unsupported(c)
        => /\ calls[c].pc \in {"get", "done"}
           /\ calls[c].setCalls = 0
           /\ calls[c].stored = "none"
           /\ calls[c].invoked = 0
           /\ calls[c].key \notin DOMAIN cache
           /\ calls[c].pc = "done"
              => /\ calls[c].lookup \in {"miss", "down"}
                 /\ calls[c].out = [status |-> "error", value |-> <<>>,
                                    error |-> UnsupportedMsg]
                 /\ resp[c].status = BAD_REQUEST
                 /\ resp[c].body = <<UnsupportedMsg>>

C11_Witness ==
    \E c \in DOMAIN calls :
        /\ Unsupported(c)
        /\ calls[c].pc = "done"
        /\ calls[c].lookup = "miss"
        /\ resp[c].status = BAD_REQUEST

\* C12: a request to process whose type or content is missing (or empty) is
\* rejected as an invalid request (status 400) before its key is computed,
\* before any cache operation and before any model invocation: processContent
\* is not entered for it, and it is entered only with both fields present.
C12_MissingFieldRejectedAtBoundary ==
    \A c \in DOMAIN resp :
        /\ (/\ resp[c].received # <<>>
            /\ \/ Falsy(resp[c].received[1], "type")
               \/ Falsy(resp[c].received[1], "content"))
           => /\ resp[c].status = BAD_REQUEST
              /\ resp[c].body = <<RequiredMsg>>
              /\ calls[c] = IdleCall
        /\ calls[c].pc # "idle"
           => ~Falsy(calls[c].req, "type") /\ ~Falsy(calls[c].req, "content")

C12_Witness ==
    \E c, d \in DOMAIN resp :
        /\ resp[c].received = <<[content |-> "abc"]>>
        /\ resp[c].status = BAD_REQUEST
        /\ resp[d].received = <<[type |-> "summarize"]>>
        /\ resp[d].status = BAD_REQUEST
        /\ calls[c] = IdleCall /\ calls[d] = IdleCall

\* the model capability failed for call c
ModelFailed(c) ==
    /\ calls[c].pc = "done"
    /\ calls[c].invoked = 1
    /\ calls[c].out.status = "error"

\* C13: when the model capability fails during processContent, the call
\* fails with the error of the model (the caller is answered 500 with its
\* message) and writes nothing to the cache: every entry of the cache was
\* stored by a call that succeeded, and a later call for the same request,
\* unless another call stored a result in between, finds no entry and invokes
\* the model again.
C13_ModelFailurePropagatesUncached ==
    /\ \A c \in DOMAIN calls :
          ModelFailed(c)
          => /\ calls[c].out = [status |-> "error", value |-> <<>>,
                                error |-> ModelError]
             /\ calls[c].setCalls = 0
             /\ calls[c].stored = "none"
             /\ batch.pc = "none"
                => /\ resp[c].status = INTERNAL_SERVER_ERROR
                   /\ resp[c].body = <<ModelError>>
    /\ \A k \in DOMAIN cache :
          \E d \in DOMAIN calls :
             /\ calls[d].key = k
             /\ calls[d].stored = "ok"
             /\ calls[d].out.status = "ok"
    /\ \A c1, c2 \in DOMAIN calls :
          (/\ ModelFailed(c1)
           /\ c1 \in calls[c2].after
           /\ calls[c2].key = calls[c1].key
           /\ \A d \in DOMAIN calls : calls[d].key = calls[c1].key
                                       => calls[d].stored # "ok")
          => /\ calls[c1].key \notin DOMAIN cache
             /\ calls[c2].lookup # "hit"
             /\ (calls[c2].pc = "done" /\ calls[c2].out.status = "ok")
                => calls[c2].invoked = 1

C13_Witness ==
    \E c1, c2 \in DOMAIN calls :
        /\ ModelFailed(c1)
        /\ calls[c1].lookup = "miss"
        /\ c1 \in calls[c2].after
        /\ calls[c2].req = calls[c1].req
        /\ calls[c2].lookup = "miss"
        /\ calls[c2].invoked = 1
        /\ calls[c2].out.status = "ok"

\* C14: when the cache write after a successful model invocation fails or is
\* refused (cacheService.set returns false), processContent still returns the
\* result it computed, and the caller is answered with it.
C14_FailedWriteStillReturns ==
    \A c \in DOMAIN calls :
        (calls[c].pc = "done" /\ calls[c].stored = "down")
        => /\ calls[c].invoked = 1
           /\ calls[c].setCalls = 1
           /\ calls[c].out.status = "ok"
           /\ \E t \in ModelTexts, time \in 0..MaxNow :
                 calls[c].out.value = <<Transform(calls[c].req, t, time)>>
           /\ batch.pc = "none"
              => resp[c].status = OK /\ resp[c].body = calls[c].out.value

C14_Witness ==
    \E c \in DOMAIN calls :
        /\ calls[c].pc = "done"
        /\ calls[c].lookup = "miss"
        /\ calls[c].stored = "down"
        /\ calls[c].key \notin DOMAIN cache
        /\ resp[c].status = OK

\* C15 (as claimed): errors of the cache layer, a cached value that cannot be
\* deserialized included, never reach the caller of processContent: they are
\* treated as a cache miss, so the request goes on to the model capability
\* and returns a result.
C15_CacheErrorsTreatedAsMiss ==
    \A c \in DOMAIN calls :
        calls[c].pc = "done"
        => /\ calls[c].out.error \notin {CacheErrorMsg, SyntaxErrorMsg}
           /\ (calls[c].out.status = "ok" /\ calls[c].lookup = "down")
              => calls[c].invoked = 1

\* C16: no operation of the cache store among get, set, delete, exists,
\* expire, clear, getJSON and setJSON throws to its caller; when the store is
\* unavailable, when the client raises an error, when a value cannot be
\* serialized or parsed, and when the key looked for is absent, it returns its
\* empty value: null for get and getJSON, false for the others.
C16_StoreOperationsNeverThrow ==
    \A o \in DOMAIN ops :
        ops[o].pc = "done"
        => /\ ~ops[o].threw
           /\ ops[o].ret # <<>>
           /\ ops[o].saw \in {"unavailable", "error", "thrown"}
              => ops[o].ret = EmptyOf(ops[o].name)
           /\ (/\ ops[o].saw = "absent"
               /\ ops[o].name \in {"get", "getJSON", "delete", "exists", "expire"})
              => ops[o].ret = EmptyOf(ops[o].name)
           /\ ops[o].name = "getJSON" => ops[o].ret[1] \in {"null", "json"}

C16_Witness ==
    \E o1, o2 \in DOMAIN ops :
        /\ ops[o1].pc = "done" /\ ops[o1].saw = "error" /\ ops[o1].name = "clear"
        /\ ops[o2].pc = "done" /\ ops[o2].saw = "present" /\ ops[o2].name = "getJSON"
        /\ ops[o2].ret = Null_

\* C17: if the connection attempt of the start fails, the store is left
\* disconnected, and no operation of the store connects it; an operation
\* called while the store is disconnected (or has no client) returns its
\* empty value at once: null for get and getJSON, false for the others,
\* without a command to the client and without a change of the database.
C17_DisconnectedStoreIssuesNoCommand ==
    [][/\ (client.connect = "pending" /\ client'.connect = "rejected")
          => ~isConnected'
       /\ ops' # ops => isConnected' = isConnected
       /\ \A o \in DOMAIN ops :
             (/\ ops[o].pc = "idle" /\ ops'[o].pc # "idle"
              /\ (~isConnected \/ ~client.made))
             => /\ ops'[o].pc = "done"
                /\ ops'[o].ret = EmptyOf(ops'[o].name)
                /\ ops'[o].commands = 0
                /\ ~ops'[o].threw
                /\ cache' = cache]_vars

C17_Witness ==
    \E o1, o2 \in DOMAIN ops :
        /\ client.connect = "rejected"
        /\ client.made
        /\ ~isConnected
        /\ ops[o1].saw = "unavailable" /\ ops[o1].name = "set"
        /\ ops[o2].saw = "unavailable" /\ ops[o2].name = "get"
        /\ StoreKey \in DOMAIN cache


\* the requests of two computed keys carry the same type, content and options,
\* options left out counting as empty
SameTriple(a, b) == RequestOf(a.wire.fields) = RequestOf(b.wire.fields)

\* C18: the cache key depends on the type, the content and the options of a
\* request only: whatever else the request object carries, whichever path it
\* came by, and whether its options were left out or empty, two requests with
\* the same three get the same key.
C18_KeyDependsOnTripleOnly ==
    \A i \in DOMAIN fps : \A j \in DOMAIN fps :
        SameTriple(fps[i], fps[j]) => fps[i].key = fps[j].key

HashOf(fp) == env.md5[JSONstringifyObject(fp.request)]

\* C20: a key is the text "ai:", the type of the request, ":" and the
\* hexadecimal hash of the request, and two requests of different types never
\* get the same key, even where their hashes coincide.
C20_KeyFormSeparatesTypes ==
    /\ \A i \in DOMAIN fps :
         /\ HashOf(fps[i]) \in Digests
         /\ fps[i].key = <<"ai", ":">> \o Chars(fps[i].wire.fields.type)
                            \o <<":">> \o HashOf(fps[i])
    /\ \A i \in DOMAIN fps : \A j \in DOMAIN fps :
         fps[i].wire.fields.type # fps[j].wire.fields.type
            => fps[i].key # fps[j].key

\* two requests of different types whose hashes coincide were keyed, one of
\* the types holding the separator
C20_Witness ==
    /\ Len(fps) = 2
    /\ fps[1].wire.fields.type = "t"
    /\ fps[2].wire.fields.type = "t:f"
    /\ HashOf(fps[1]) = HashOf(fps[2])

\* C21: the key is computed over a canonical serialization, the fields in a
\* fixed order and the option keys sorted: two requests with the same type,
\* the same content and the same option pairs get the same key, in whatever
\* order their fields or their option keys were inserted.
C21_KeyIgnoresInsertionOrder ==
    \A i \in DOMAIN fps : \A j \in DOMAIN fps :
        fps[i].wire.fields = fps[j].wire.fields => fps[i].key = fps[j].key

\* an invocation that had returned when c started wrote the entry of c's key
WrittenBefore(c) ==
    \E d \in calls[c].after :
        calls[d].key = calls[c].key /\ calls[d].stored = "ok"

\* C22: every entry processContent writes is stored with an expiry of 3600
\* seconds; once the entry has expired or was removed (delete, clear), the
\* next identical request is a miss: it goes on to the model capability, and a
\* request that returns after a miss has invoked the model once and has
\* called set once, the entry being there again when the write succeeded.
C22_ExpiredEntryIsComputedAgain ==
    [][/\ \A k \in DOMAIN cache' : cache'[k].ttl = 3600
       /\ \A c \in DOMAIN calls :
            /\ (calls[c].pc = "set" /\ calls'[c].stored = "ok")
                  => /\ calls[c].key \in DOMAIN cache'
                     /\ cache'[calls[c].key] =
                            [value |-> JSONstringify(calls[c].result[1]),
                             ttl |-> 3600]
            /\ (/\ calls[c].pc = "get" /\ calls'[c].pc # "get"
                /\ WrittenBefore(c)
                /\ calls[c].key \notin DOMAIN cache)
                  => /\ calls'[c].lookup \in {"miss", "down"}
                     /\ calls'[c].pc \in {"model", "init"}
                     /\ calls'[c].invoked = (IF calls'[c].pc = "model" THEN 1 ELSE 0)
            /\ (/\ calls'[c].pc = "done" /\ calls'[c].out.status = "ok"
                /\ calls'[c].lookup = "miss")
                  => calls'[c].invoked = 1 /\ calls'[c].setCalls = 1
      ]_vars

\* the entry of a request was written, was removed, and an identical request
\* that came after missed, invoked the model and wrote the entry again
C22_Witness ==
    \E c \in DOMAIN calls :
        /\ WrittenBefore(c)
        /\ evicted
        /\ calls[c].pc = "done"
        /\ calls[c].lookup = "miss"
        /\ calls[c].invoked = 1
        /\ calls[c].stored = "ok"
        /\ calls[c].key \in DOMAIN cache

\* texts of the model that are not JSON once the fences are stripped
Unparsable ==
    {<<>>, <<"x">>, FenceOpen \o <<"x">> \o FenceClose,
     FenceOpen \o <<"7">> \o FenceClose \o <<"\n">>}

\* the model answered call c, a request of the given type, with a text that
\* does not parse
HeardUnparsable(c, type) ==
    /\ Has(calls[c].req, "type") /\ calls[c].req.type = type
    /\ calls[c].heard # <<>>
    /\ calls[c].heard[1] \in Unparsable

\* C23: for analyze-sentiment, when the text of the model does not parse as
\* JSON after the fences are stripped, processContent does not fail: it
\* returns, and the endpoint answers 200 with, a result whose payload is
\* {error: "Invalid result format"}.
C23_SentimentParseFailureIsAPayload ==
    \A c \in DOMAIN calls :
        HeardUnparsable(c, "analyze-sentiment")
            => /\ calls[c].out.status # "error"
               /\ calls[c].pc = "set"
                     => calls[c].result[1].result = [error |-> "Invalid result format"]
               /\ calls[c].pc = "done"
                     => /\ calls[c].out.value[1].type = "analyze-sentiment"
                        /\ calls[c].out.value[1].result =
                               [error |-> "Invalid result format"]
                        /\ resp[c].status = 200
                        /\ resp[c].body = calls[c].out.value

\* a sentiment request returned after the model answered a fenced text that
\* is not JSON
C23_Witness ==
    \E c \in DOMAIN calls :
        /\ HeardUnparsable(c, "analyze-sentiment")
        /\ calls[c].heard[1] = FenceOpen \o <<"x">> \o FenceClose
        /\ calls[c].pc = "done"
        /\ resp[c].status = 200

\* an empty list of keywords: the list itself, or a payload that holds it
EmptyKeywordList(payload) ==
    \/ DOMAIN payload = {}
    \/ Has(payload, "keywords") /\ DOMAIN payload.keywords = {}

\* C24: for extract-keywords, when the text of the model does not parse as
\* JSON after the fences are stripped, the request does not fail and the
\* payload of the result is an empty list of keywords.
C24_KeywordsParseFailureIsEmptyList ==
    \A c \in DOMAIN calls :
        (HeardUnparsable(c, "extract-keywords") /\ calls[c].pc = "done")
            => /\ calls[c].out.status = "ok"
               /\ EmptyKeywordList(calls[c].out.value[1].result)

\* JSON texts and the values they stand for
Expected ==
    {[text |-> <<"7">>, value |-> [number |-> 7]],
     [text |-> <<"4", "2">>, value |-> [number |-> 42]],
     [text |-> <<"4", "2", "\n">>, value |-> [number |-> 42]]}

\* the value formatResponse returned to call c
FormattedOf(c) ==
    LET envelope == IF calls[c].pc = "set" THEN calls[c].result[1]
                    ELSE calls[c].out.value[1]
    IN  IF envelope.type = "extract-keywords" THEN envelope.result.response
        ELSE envelope.result

\* C25: formatResponse strips one leading fence with its line break and one
\* trailing fence before it parses: a fenced JSON text, or one with either
\* fence alone, gives the value the bare JSON text gives, and a text without
\* fences is parsed as it is.
C25_FencedParsesAsUnfenced ==
    \A c \in DOMAIN calls :
        (calls[c].heard # <<>> /\ calls[c].out.status # "error")
            => /\ \A e \in Expected :
                    calls[c].heard[1] \in
                        {e.text, FenceOpen \o e.text \o FenceClose,
                         FenceOpen \o e.text, e.text \o FenceClose}
                        => FormattedOf(c) = e.value
               /\ calls[c].heard[1] \in {<<>>, <<"x">>}
                    => FormattedOf(c) = [error |-> "Invalid result format"]

\* fenced JSON with a line break before the closing fence was parsed
C25_Witness ==
    \E c \in DOMAIN calls :
        /\ calls[c].pc = "done"
        /\ calls[c].heard = <<FenceOpen \o <<"4", "2", "\n">> \o FenceClose>>
        /\ FormattedOf(c) = [number |-> 42]

\* C26: every value a successful processContent returns, computed on a miss
\* or served from the cache, is an envelope whose type is the type of the
\* request that was submitted.
C26_EnvelopeTypeIsRequestType ==
    \A c \in DOMAIN calls :
        (calls[c].pc = "done" /\ calls[c].out.status = "ok")
            => /\ Has(calls[c].out.value[1], "type")
               /\ Has(calls[c].out.value[1], "result")
               /\ calls[c].out.value[1].type = resp[c].received[1].type
               /\ resp[c].body[1].type = resp[c].received[1].type

\* a keyword request was served from the cache
C26_Witness ==
    \E c \in DOMAIN calls :
        /\ calls[c].pc = "done" /\ calls[c].out.status = "ok"
        /\ calls[c].lookup = "hit"
        /\ resp[c].received[1].type = "extract-keywords"
        /\ resp[c].status = 200

\* the value used for option f of call c is the supplied one, or the default
\* when the request carries none
SuppliedOrDefault(c, f, used, dflt) ==
    LET options == calls[c].req.options IN
    used = (IF Has(options, f) THEN options[f] ELSE dflt)

\* C27: for every recognized option the transform uses the documented default
\* only when the key is missing and the supplied value otherwise: translate
\* with preserveFormatting false leaves the formatting instruction out, and a
\* temperature or a maxLength of 0 is not replaced by the default.
C27_DefaultsOnlyForMissingOptions ==
    \A c \in DOMAIN calls :
        calls[c].asked # <<>> =>
            LET asked == calls[c].asked[1]
                type == calls[c].req.type
            IN  /\ type = "summarize" =>
                     /\ SuppliedOrDefault(c, "style", asked.style, "concise")
                     /\ SuppliedOrDefault(c, "maxLength", asked.maxLength, 150)
                /\ type = "generate-content" =>
                     /\ SuppliedOrDefault(c, "style", asked.style, "professional")
                     /\ SuppliedOrDefault(c, "temperature", asked.temperature, 7)
                     /\ SuppliedOrDefault(c, "maxTokens", asked.maxOutputTokens, 1024)
                /\ type = "translate" =>
                     /\ SuppliedOrDefault(c, "targetLanguage", asked.targetLanguage,
                                          "Spanish")
                     /\ SuppliedOrDefault(c, "preserveFormatting",
                                          asked.preserveFormatting, TRUE)

\* a request object that fails validation: null, or without a type or a
\* content
Invalid(request) ==
    \/ Has(request, "isNull")
    \/ ~Has(request, "type") \/ request.type = ""
    \/ ~Has(request, "content") \/ request.content = ""

\* the single-request half of C28, for the exchange of call c
SingleStatusByOutcome(c) ==
    LET body == resp[c].received[1] IN
    IF Invalid(body) THEN resp[c].status = 400
    ELSE IF body.type \notin SupportedTypes THEN resp[c].status = 400
    ELSE IF calls[c].out.status = "error" THEN resp[c].status = 500
    ELSE resp[c].status = 200 /\ resp[c].body = calls[c].out.value

\* the batch half of C28
BatchStatusByOutcome ==
    IF Len(batch.requests) = 0
       \/ \E k \in DOMAIN batch.requests : Invalid(batch.requests[k])
    THEN batch.status = 400
    ELSE IF batch.thrown # <<>> THEN batch.status = 500
    ELSE batch.status = 200

\* C28: the single-request endpoint answers 400 when the request is invalid
\* (type or content missing) or its type is unsupported, 500 when processing
\* fails for another reason, and 200 with the result otherwise; the batch
\* endpoint answers 400 on a validation failure and 500 on any failure inside
\* the batch, an unsupported type included.
C28_StatusByOutcome ==
    /\ \A c \in DOMAIN resp : resp[c].status # 0 => SingleStatusByOutcome(c)
    /\ batch.pc = "done" => BatchStatusByOutcome

\* C28 without the batches that hold a null
C28_StatusByOutcomeOfObjects ==
    /\ \A c \in DOMAIN resp : resp[c].status # 0 => SingleStatusByOutcome(c)
    /\ (/\ batch.pc = "done"
        /\ \A k \in DOMAIN batch.requests : ~Has(batch.requests[k], "isNull"))
          => BatchStatusByOutcome

\* the backend answered the command of operation o
Answered(o) == ops[o].pc = "done" /\ ops[o].saw \in {"present", "absent"}

\* o2 was called after o1 had returned, and no command that writes or removes
\* an entry can have reached the backend between the two
Next_(o1, o2) ==
    /\ o1 # o2
    /\ Answered(o1) /\ Answered(o2)
    /\ o1 \in ops[o2].after
    /\ \A o3 \in DOMAIN ops \ {o1, o2} :
         \/ ops[o3].commands = 0
         \/ ops[o3].name \notin {"set", "setJSON", "delete", "clear"}
         \/ o3 \in ops[o1].after
         \/ o2 \in ops[o3].after

\* C29: with the store connected, after set(k, v) has returned true, get(k)
\* returns v and exists(k) returns true until the key is deleted, cleared or
\* expires; delete(k) returns true exactly when the key was present, and after
\* it exists(k) returns false and get(k) returns null.
C29_StoreReadsWhatWasWritten ==
    /\ \A o \in DOMAIN ops :
         (Answered(o) /\ ops[o].name = "delete")
            => ops[o].ret = <<"bool", ops[o].saw = "present">>
    /\ \A o1, o2 \in DOMAIN ops :
         Next_(o1, o2) =>
            /\ (ops[o1].name = "set" /\ ops[o1].ret = <<"bool", TRUE>>) =>
                 /\ ops[o2].name = "get" => ops[o2].ret = <<"text", ops[o1].arg[1]>>
                 /\ ops[o2].name = "exists" => ops[o2].ret = <<"bool", TRUE>>
                 /\ ops[o2].name = "delete" => ops[o2].ret = <<"bool", TRUE>>
            /\ ops[o1].name = "delete" =>
                 /\ ops[o2].name = "get" => ops[o2].ret = <<"null">>
                 /\ ops[o2].name = "exists" => ops[o2].ret = <<"bool", FALSE>>
                 /\ ops[o2].name = "delete" => ops[o2].ret = <<"bool", FALSE>>

\* an entry that was present was deleted, and the exists that followed found
\* nothing
C29_Witness ==
    \E o1, o2 \in DOMAIN ops :
        /\ Next_(o1, o2)
        /\ ops[o1].name = "delete" /\ ops[o1].ret = <<"bool", TRUE>>
        /\ ops[o2].name = "exists" /\ ops[o2].ret = <<"bool", FALSE>>

\* call c returned the result of a model invocation that completed for its
\* request, after a lookup that was not a hit
Computed(c) ==
    /\ calls[c].invoked = 1
    /\ calls[c].heard # <<>>
    /\ calls[c].lookup \in {"miss", "down"}
    /\ calls[c].out.status # "error"

\* C30: in every reachable state each entry of the cache sits under the key
\* of the request that produced it and holds the serialized result of a model
\* invocation that completed for that request; processContent writes the
\* cache only after such an invocation, never on a hit and never on a failure.
C30_EntriesAreResultsOfTheirRequests ==
    /\ \A k \in DOMAIN cache :
         \E c \in DOMAIN calls :
            /\ calls[c].stored = "ok"
            /\ Computed(c)
            /\ k = calls[c].key
            /\ k = generateCacheKey(Entries(calls[c].req))
            /\ calls[c].req = RequestOf(resp[c].received[1])
            /\ \E t \in 0..MaxNow :
                 cache[k] = [value |-> JSONstringify(
                                          Transform(calls[c].req, calls[c].heard[1], t)),
                             ttl |-> 3600]
            /\ cache[k].value = JSONstringify(calls[c].out.value[1])
    /\ \A c \in DOMAIN calls :
         /\ (calls[c].setCalls > 0 \/ calls[c].stored # "none") => Computed(c)
         /\ calls[c].setCalls <= 1
         /\ calls[c].lookup = "hit" => calls[c].setCalls = 0
         /\ calls[c].out.status = "error" => calls[c].setCalls = 0

\* the cache holds the entry a request wrote, and an identical request was
\* served from it without writing
C30_Witness ==
    \E c, d \in DOMAIN calls :
        /\ calls[c].stored = "ok" /\ calls[c].key \in DOMAIN cache
        /\ calls[c].heard = <<<<"7">>>>
        /\ calls[d].pc = "done" /\ calls[d].lookup = "hit"
        /\ calls[d].key = calls[c].key
        /\ calls[d].setCalls = 0


\* C31: after a request of window k of batchProcess has failed, no request of
\* a later window is ever started: each of them stays as it was before the
\* call (no cache lookup, no model invocation, no write), and no cooldown
\* delay is made beyond the k delays that preceded window k.
C31_NoLaterWindowAfterFailure ==
    \A c \in DOMAIN calls :
        calls[c].out.status = "error"
        => /\ \A d \in DOMAIN calls :
                 WindowIndex(d) > WindowIndex(c)
                 => /\ calls[d].pc = "idle"
                    /\ calls[d].lookup = "none"
                    /\ calls[d].invoked = 0
                    /\ calls[d].setCalls = 0
           /\ Len(batch.delays) = WindowIndex(c)
           /\ batch.pc = "done"
           /\ batch.status = INTERNAL_SERVER_ERROR

\* a request of the first window of a two-window batch has failed, every
\* request of that window has settled, and the second window never started
C31_Witness ==
    /\ DOMAIN calls = 1..MaxBatch
    /\ \E c \in 1..batchSize : calls[c].out.status = "error"
    /\ \A c \in 1..batchSize : calls[c].pc = "done"
    /\ \A d \in (batchSize + 1)..MaxBatch : calls[d].pc = "idle"
    /\ batch.delays = <<>>


\* C32 (as claimed): once batchProcess has rejected it leaves no work in
\* flight: from the state in which the rejection has been delivered on, no
\* request invokes the model and no cache entry is written.
C32_NoWorkAfterRejection ==
    [][(batch.pc = "done" /\ batch.thrown # <<>>)
       => /\ \A c \in DOMAIN calls : calls'[c].invoked = calls[c].invoked
          /\ cache' = cache]_vars


\* the events after which the store is not connected
Disconnecting == {"error", "end", "init failed", "close"}

\* a 'ready' event has been received and none of the others since
ReadySince(events) ==
    \E i \in 1..Len(events) :
        /\ events[i] = "ready"
        /\ \A j \in (i + 1)..Len(events) : events[j] \notin Disconnecting

\* C33: the isConnected flag of the store is true in exactly the states where
\* a 'ready' event has been received and no 'error' event, 'end' event,
\* failed init or close() has happened since.  An operation called in such a
\* state, also after earlier errors, gives its command to the client; an
\* operation called after close() gives none and returns null or false.
C33_FlagFollowsEvents ==
    /\ [](isConnected <=> ReadySince(client.events))
    /\ [][\A o \in DOMAIN ops :
            (ops[o].pc = "idle" /\ ops'[o].pc # "idle")
            => /\ (ReadySince(client.events) /\ ops'[o].arg # <<Cyclic>>)
                  => ops'[o].pc = "sent" /\ ops'[o].commands = 1
               /\ client.quit = "resolved"
                  => /\ ops'[o].pc = "done"
                     /\ ops'[o].commands = 0
                     /\ ops'[o].ret = EmptyOf(ops'[o].name)
                     /\ ~ops'[o].threw]_vars

\* the backend was lost and came back, a get then read the value, close()
\* returned, and a get called after it found the store unavailable
C33_Witness ==
    /\ Recording
    /\ client.events = <<"error", "ready", "close">>
    /\ ops[1].name = "get" /\ ops[1].ret = Text(NotJSON)
    /\ ops[2].name = "get" /\ ops[2].after = {1}
    /\ ops[2].saw = "unavailable" /\ ops[2].ret = Null_
    /\ ~isConnected


\* C34 (as claimed): every transform other than summarize performs the
\* ensureInitialized check before it invokes the model capability: a request
\* of such a type that arrives before the initialization of the client has
\* finished waits for the initialization, and never fails with the TypeError
\* of calling the unset model client.
C34_TransformsEnsureInitialized ==
    \A c \in DOMAIN calls :
        (Has(calls[c].req, "type")
         /\ calls[c].req.type \in SupportedTypes \ {"summarize"})
        => calls[c].out.error # TypeErrorMsg


\* the payload formatResponse returns when the text does not parse
Placeholder == [error |-> "Invalid result format"]

\* a result whose payload is the placeholder: the payload itself for
\* analyze-sentiment, the response of the payload for extract-keywords
HoldsPlaceholder(v) ==
    \/ v.result = Placeholder
    \/ Has(v.result, "response") /\ v.result.response = Placeholder

\* C35: a result whose payload is the placeholder of a parse failure is
\* written to the cache like any result, under the key of its request and
\* with the ttl of cacheTimeout seconds; a request that finds that entry
\* returns the placeholder without invoking the model.
C35_PlaceholderIsCached ==
    [][\A c \in DOMAIN calls :
          /\ (/\ calls[c].pc = "model"
              /\ calls'[c].heard # <<>>
              /\ calls'[c].heard[1] \in Unparsable
              /\ isConnected)
             => /\ calls'[c].pc = "set"
                /\ HoldsPlaceholder(calls'[c].result[1])
          /\ (/\ calls[c].pc = "set"
              /\ calls'[c].pc = "done"
              /\ HoldsPlaceholder(calls[c].result[1]))
             => /\ calls[c].key \in DOMAIN cache'
                /\ cache'[calls[c].key] =
                       [value |-> JSONstringify(calls[c].result[1]),
                        ttl |-> cacheTimeout]
          /\ (/\ calls[c].pc = "get"
              /\ calls'[c].pc # "get"
              /\ calls[c].key \in DOMAIN cache
              /\ HoldsPlaceholder(JSONparse(cache[calls[c].key].value)))
             => /\ calls'[c].pc = "done"
                /\ calls'[c].invoked = 0
                /\ calls'[c].setCalls = 0
                /\ calls'[c].out.status = "ok"
                /\ calls'[c].out.value = <<JSONparse(cache[calls[c].key].value)>>
                /\ HoldsPlaceholder(calls'[c].out.value[1])]_vars

\* the first sentiment request heard a text that does not parse and its
\* result was stored; the second, made after the first had returned, found
\* the entry and returned the placeholder without a model invocation
C35_Witness ==
    /\ HeardUnparsable(1, "analyze-sentiment")
    /\ calls[1].stored = "ok"
    /\ calls[2].after = {1}
    /\ calls[2].req = calls[1].req
    /\ calls[2].lookup = "hit"
    /\ calls[2].invoked = 0
    /\ calls[2].out.status = "ok"
    /\ calls[2].out.value[1].result = Placeholder
    /\ calls[1].key \in DOMAIN cache
    /\ cache[calls[1].key].ttl = cacheTimeout


\* C36: if every processContent call settles in the end, a batchProcess call
\* over a list of n requests settles in the end.  When all requests succeed
\* it has run ceil(n / batchSize) windows, each of at most batchSize
\* consecutive requests started once all requests before the window had
\* completed, has made max(0, ceil(n / batchSize) - 1) delays and returns n
\* results; for n = 0 it returns the empty list without a cache or model
\* operation.
C36_BatchSettles ==
    /\ (batch.pc \in {"window", "delay"}) ~> (batch.pc = "done")
    /\ []((batch.pc = "done" /\ batch.thrown = <<>>)
          => LET n == Len(batch.requests)
                 windows == (n + batchSize - 1) \div batchSize
             IN  /\ Len(batch.results) = n
                 /\ n = 0 => /\ calls = <<>>
                             /\ DOMAIN cache = {}
                             /\ batch.delays = <<>>
                 /\ n > 0 => /\ batch.i = (windows - 1) * batchSize
                             /\ Len(batch.delays) = windows - 1
                             /\ \A c \in DOMAIN calls :
                                   /\ calls[c].pc = "done"
                                   /\ calls[c].after =
                                         1..(((c - 1) \div batchSize) * batchSize))

\* a list of MaxBatch requests has been processed in two windows with one
\* delay between them
C36_Witness ==
    /\ batch.pc = "done"
    /\ batch.thrown = <<>>
    /\ Len(batch.requests) = MaxBatch
    /\ Len(batch.results) = MaxBatch
    /\ batch.i = batchSize
    /\ Len(batch.delays) = 1
    /\ \A c \in DOMAIN calls : calls[c].pc = "done"

============================================================================
